---- MODULE Spec2Model ----
(***************************************************************************)
(* A model of the skript workflow engine: the state store and its join     *)
(* counters, the task queue, the worker loop and the built-in nodes, the   *)
(* expander and the compiler, and fused-node execution.                    *)
(*                                                                         *)
(* The specifications share the module's variables:                       *)
(*   Spec          the engine: start_workflow, run_worker, the nodes       *)
(*   SpecStore     concurrent calls of StateStore::decrement_join_count    *)
(*   SpecCompile   Expander::expand and Compiler::compile on one Compiler  *)
(*   SpecFused     a chain of function nodes run unfused and fused         *)
(* Each specification leaves the variables of the others at their initial  *)
(* value.                                                                  *)
(***************************************************************************)
EXTENDS Integers, Sequences, FiniteSets, TLC

VARIABLES
    backend,        \* "mem" (InMemory*) or "redis" (Redis*): the storage pair in use
    joins,          \* StateStore join counters: <<instance, node_index>> -> count
    joinLock,       \* InMemoryStateStore: instances whose `joins` shard is write-locked
    calls,          \* SpecStore: one decrement_join_count call per caller
    initial_count,  \* SpecStore: the initial_count argument every caller passes
    vars,           \* StateStore variables: instance -> (key -> value)
    pending_joins,  \* the counters JoinNode::execute keeps: <<instance, node_index>> -> count
    blueprints,     \* Engine.blueprints: the registered blueprint (a record) or NoBlueprint
    queue,          \* the task queue's content
    capacity,       \* InMemoryTaskQueue::new(capacity)
    wrk,            \* one record per worker: its place in run_worker
    started,        \* instances start_workflow has created
    nextUuid,       \* the next value Uuid::new_v4() returns
    hist,           \* history of the run: executions, syscalls, pops (ghost)
    id_map,         \* Compiler.id_map
    comp,           \* SpecCompile: the last compile call (input, expansion, result)
    fz,             \* SpecFused: the two runs of one chain
    executable_cache, \* Engine.executable_cache: blueprint id -> prepared nodes
    eng,            \* SpecPrepare: one Engine call per caller and its place in it
    opt,            \* SpecOptimize: the locals of one Optimizer::optimize call
    it,             \* SpecIteration: one token going round an Iteration node
    pair,           \* SpecBackends: the two state stores under the same calls
    ifn,            \* SpecIf: one execution of an If node
    fw,             \* SpecLossy: one token over a store whose writes may fail
    fr              \* SpecFrame: two instances in each of the two state stores

storeVars  == <<joins, joinLock, calls, initial_count>>
engineVars == <<vars, pending_joins, blueprints, queue, capacity, wrk, started, nextUuid, hist>>
compVars   == <<id_map, comp>>
fusedVars  == <<fz>>
prepVars   == <<executable_cache, eng>>
optVars    == <<opt>>
iterVars   == <<it>>
pairVars   == <<pair>>
restVars   == <<fw, fr>>
lastVars   == <<ifn, restVars>>
laterVars  == <<prepVars, optVars, iterVars, pairVars, lastVars>>
allVars    == <<backend, storeVars, engineVars, compVars, fusedVars, laterVars>>

(***************************************************************************)
(* Bounds of the model.                                                    *)
(***************************************************************************)
MaxCount == 3       \* largest initial_count / expect_count
MaxCalls == 4       \* concurrent callers of decrement_join_count
MaxBranches == 2    \* branches of a Parallel node
MaxBranchLen == 2   \* nodes in one branch of a Parallel node
MaxCompiles == 2    \* compile calls on one Compiler
NumWorkers == 2     \* concurrent run_worker loops
MaxCapacity == 2    \* largest capacity of the in-memory task queue
MaxEngineCalls == 2 \* concurrent calls of register_blueprint, prepare_blueprint, start_workflow
MaxOps == 3         \* function nodes in a chain given to the optimizer
MaxOutEdges == 2    \* outgoing edges of an Iteration, Loop or If node

Backends == {"mem", "redis"}

(***************************************************************************)
(* Finite maps (serde_json objects, HashMap, DashMap).                     *)
(***************************************************************************)
EmptyMap == [k \in {} |-> 0]

Has(m, k) == k \in DOMAIN m

Put(m, k, v) == [x \in (DOMAIN m) \cup {k} |-> IF x = k THEN v ELSE m[x]]

Del(m, k) == [x \in (DOMAIN m) \ {k} |-> m[x]]

(***************************************************************************)
(* StateStore::decrement_join_count.                                       *)
(*                                                                         *)
(* Counters are usize.  A value is represented modulo 2^64 by the integer  *)
(* nearest to zero, so that fetch_sub(1) on 0 gives -1, which stands for   *)
(* usize::MAX; the code only compares counters with == .                   *)
(***************************************************************************)

\* AtomicUsize::fetch_sub(1): the stored value after the call.
FetchSub1_StoresPrev(v) == v

FetchSub1(v) == v - 1

MemEntryOrInsert_Resets(j, key, init) == Put(j, key, init)

\* InMemoryStateStore, line 1-2: entry(instance).or_insert_with, entry(node_index)
\* .or_insert_with(AtomicUsize::new(initial_count)): the counter map afterwards.
MemEntryOrInsert(j, key, init) == IF Has(j, key) THEN j ELSE Put(j, key, init)

MemCleanup_Never(j, key, new_val) == j

\* InMemoryStateStore, step 3: if new_val == 0 { inst_joins.remove(&node_index) }
MemCleanup(j, key, new_val) == IF new_val = 0 THEN Del(j, key) ELSE j

\* InMemoryStateStore::decrement_join_count run without interruption:
\* <<counter map afterwards, returned value>>.
MemDecrement(j, key, init) ==
    LET entered == MemEntryOrInsert(j, key, init)
        prev == entered[key]
        new_val == prev - 1
    IN <<MemCleanup([entered EXCEPT ![key] = FetchSub1(@)], key, new_val), new_val>>

RedisScript_KeepsZero(j, key, init) ==
    IF ~Has(j, key)
    THEN LET val == init - 1
         IN IF val = 0 THEN <<j, 0>> ELSE <<Put(j, key, val), val>>
    ELSE LET val == j[key] - 1
         IN IF val <= 0 THEN <<Put(j, key, 0), 0>> ELSE <<Put(j, key, val), val>>

\* The Lua script of RedisStateStore::decrement_join_count, run atomically by the
\* server: <<hash afterwards, returned value>>.
RedisScript(j, key, init) ==
    IF ~Has(j, key)
    THEN LET val == init - 1
         IN IF val = 0 THEN <<j, 0>> ELSE <<Put(j, key, val), val>>
    ELSE LET val == j[key] - 1
         IN IF val <= 0 THEN <<Del(j, key), 0>> ELSE <<Put(j, key, val), val>>

(***************************************************************************)
(* Option<T> is <<>> (None) or <<v>> (Some(v)).  serde_json::Value is a     *)
(* tagged record.                                                          *)
(***************************************************************************)
None == <<>>

Some(v) == <<v>>

IsSome(o) == o # <<>>

JNull == [t |-> "null", v |-> 0]

JNum(n) == [t |-> "num", v |-> n]

JStr(s) == [t |-> "str", v |-> s]

JBool(b) == [t |-> "bool", v |-> b]

JArr(a) == [t |-> "arr", v |-> a]

JObj(m) == [t |-> "obj", v |-> m]

\* json!(option): null for None.
JOptNum(o) == IF IsSome(o) THEN JNum(o[1]) ELSE JNull

JOptStr(o) == IF IsSome(o) THEN JStr(o[1]) ELSE JNull

\* params.get(key): Option<&Value> on an object given as a map.
JGet(params, key) == IF Has(params, key) THEN Some(params[key]) ELSE None

\* .and_then(|v| v.as_u64())
AsU64(o) == IF IsSome(o) /\ o[1].t = "num" THEN (IF o[1].v >= 0 THEN Some(o[1].v) ELSE None) ELSE None

\* .and_then(|v| v.as_str())
AsStr(o) == IF IsSome(o) /\ o[1].t = "str" THEN Some(o[1].v) ELSE None

\* .and_then(|v| v.as_array())
AsArray(o) == IF IsSome(o) /\ o[1].t = "arr" THEN Some(o[1].v) ELSE None

(***************************************************************************)
(* dsl: Workflow, Node, NodeType, Branch, Edge.                            *)
(***************************************************************************)
Edge(s, t) == [source |-> s, target |-> t, condition |-> None,
               branch_type |-> None, branch_index |-> None]

EdgeTyped(s, t, bt) == [source |-> s, target |-> t, condition |-> None,
                        branch_type |-> Some(bt), branch_index |-> None]

EdgeCond(s, t, c) == [source |-> s, target |-> t, condition |-> Some(c),
                      branch_type |-> None, branch_index |-> None]

NStart(id) == [id |-> id, kind |-> "Start"]

NEnd(id, output) == [id |-> id, kind |-> "End", output |-> output]

NFunction(id, name, params, output) ==
    [id |-> id, kind |-> "Function", name |-> name, params |-> params, output |-> output]

NAssign(id, assignments, expression) ==
    [id |-> id, kind |-> "Assign", assignments |-> assignments, expression |-> expression]

NIf(id, branches) == [id |-> id, kind |-> "If", branches |-> branches]

NParallel(id, branches) == [id |-> id, kind |-> "Parallel", branches |-> branches]

NIteration(id, collection, item_var) ==
    [id |-> id, kind |-> "Iteration", collection |-> collection, item_var |-> item_var]

NLoop(id, condition) == [id |-> id, kind |-> "Loop", condition |-> condition]

NFork(id, branch_start_ids, join_id) ==
    [id |-> id, kind |-> "Fork", branch_start_ids |-> branch_start_ids, join_id |-> join_id]

NJoin(id, expect_count) == [id |-> id, kind |-> "Join", expect_count |-> expect_count]

Branch(nodes) == [nodes |-> nodes]

Workflow(id, nodes, edges) == [id |-> id, name |-> id, nodes |-> nodes, edges |-> edges]

(***************************************************************************)
(* compiler::expander                                                      *)
(***************************************************************************)
ForkId(parallel_id) == parallel_id \o "_fork"

JoinId(parallel_id) == parallel_id \o "_join"

\* The edges one branch adds: node i -> node i+1, then tail -> join.
BranchEdges(bn, join_id) ==
    [i \in 1..Len(bn) |-> IF i < Len(bn) THEN Edge(bn[i].id, bn[i + 1].id)
                                          ELSE Edge(bn[i].id, join_id)]

\* The loop over `branches` of expand_parallel: empty branches are skipped, the
\* nodes of a branch are pushed as they are (node.clone()).
RECURSIVE LayBranches(_, _, _)
LayBranches(branches, join_id, acc) ==
    IF branches = <<>> THEN acc
    ELSE LET bn == Head(branches).nodes
         IN IF bn = <<>>
            THEN LayBranches(Tail(branches), join_id, acc)
            ELSE LayBranches(Tail(branches), join_id,
                    [nodes |-> acc.nodes \o bn,
                     edges |-> acc.edges \o BranchEdges(bn, join_id),
                     starts |-> Append(acc.starts, bn[1].id)])

\* Step 6 of expand_parallel with the rewrite of the sources left out.
RedirectEdge_TargetOnly(e, parallel_id) ==
    [e EXCEPT !.target = IF e.target = parallel_id THEN ForkId(parallel_id) ELSE @]

\* Step 6 of expand_parallel, on one edge.
RedirectEdge(e, parallel_id) ==
    [e EXCEPT !.target = IF e.target = parallel_id THEN ForkId(parallel_id) ELSE @,
              !.source = IF e.source = parallel_id THEN JoinId(parallel_id) ELSE @]

expand_parallel(parallel_id, branches, new_nodes, new_edges) ==
    LET laid == LayBranches(branches, JoinId(parallel_id),
                            [nodes |-> new_nodes, edges |-> new_edges, starts |-> <<>>])
        fork == NFork(ForkId(parallel_id), laid.starts, JoinId(parallel_id))
        join == NJoin(JoinId(parallel_id), Len(laid.starts))
    IN [nodes |-> laid.nodes \o <<fork, join>>,
        edges |-> [i \in 1..Len(laid.edges) |-> RedirectEdge(laid.edges[i], parallel_id)]]

\* The loop over workflow.nodes of Expander::expand.
RECURSIVE ExpandNodes(_, _)
ExpandNodes(nodes, acc) ==
    IF nodes = <<>> THEN acc
    ELSE LET node == Head(nodes)
         IN IF node.kind = "Parallel"
            THEN ExpandNodes(Tail(nodes),
                             expand_parallel(node.id, node.branches, acc.nodes, acc.edges))
            ELSE ExpandNodes(Tail(nodes), [acc EXCEPT !.nodes = Append(@, node)])

Expand(workflow) ==
    LET r == ExpandNodes(workflow.nodes, [nodes |-> <<>>, edges |-> workflow.edges])
    IN [workflow EXCEPT !.nodes = r.nodes, !.edges = r.edges]

(***************************************************************************)
(* compiler::core.  A blueprint node is [kind, params], params a map from   *)
(* key to JSON value; node indices count from 0 as in the code.            *)
(***************************************************************************)
Ok(v) == [ok |-> TRUE, v |-> v]

Err(e) == [ok |-> FALSE, err |-> e]

BlueprintNode(kind, params) == [kind |-> kind, params |-> params]

\* Compiler::resolve_target: looked up in self.id_map, whatever put the entry there.
resolve_target(m, target_id) ==
    IF Has(m, target_id) THEN Ok(m[target_id]) ELSE Err("Target node not found")

\* Pass 1 of compile: id_map.insert(id, idx) for each node in turn; an insert that
\* finds the key present (it overwrites it) ends the compile with an error.
RECURSIVE IndexPass(_, _, _)
IndexPass(nodes, idx, m) ==
    IF nodes = <<>> THEN Ok(m)
    ELSE LET id == Head(nodes).id
         IN IF Has(m, id)
            THEN [ok |-> FALSE, err |-> "Duplicate node ID", v |-> Put(m, id, idx)]
            ELSE IndexPass(Tail(nodes), idx + 1, Put(m, id, idx))

\* adjacency.get(&node.id): the edges whose source is the node, in edge order.
OutEdges(edges, id) == SelectSeq(edges, LAMBDA e : e.source = id)

\* edges.first().map(|e| self.resolve_target(&e.target)).transpose()?
FirstNext(m, edges) ==
    IF edges = <<>> THEN Ok(None)
    ELSE LET r == resolve_target(m, edges[1].target)
         IN IF r.ok THEN Ok(Some(r.v)) ELSE r

\* obj.insert(key, json!(n)) when the option is Some.
InsertIfSome(params, key, o, J(_)) == IF IsSome(o) THEN Put(params, key, J(o[1])) ELSE params

\* The edge loop of the Iteration arm.
RECURSIVE IterationEdges(_, _, _)
IterationEdges(m, edges, acc) ==
    IF edges = <<>> THEN Ok(acc)
    ELSE LET edge == Head(edges)
             r == resolve_target(m, edge.target)
         IN IF ~r.ok THEN r
            ELSE IF edge.branch_type = Some("body")
            THEN IF IsSome(acc.body) THEN Err("Multiple body branches for iteration node")
                 ELSE IterationEdges(m, Tail(edges), [acc EXCEPT !.body = Some(r.v)])
            ELSE IF IsSome(acc.next) THEN Err("Multiple next branches for iteration node")
                 ELSE IterationEdges(m, Tail(edges), [acc EXCEPT !.next = Some(r.v)])

\* The edge loop of the Loop arm: a later edge overwrites an earlier one.
RECURSIVE LoopEdges(_, _, _)
LoopEdges(m, edges, acc) ==
    IF edges = <<>> THEN Ok(acc)
    ELSE LET edge == Head(edges)
             r == resolve_target(m, edge.target)
         IN IF ~r.ok THEN r
            ELSE IF edge.branch_type = Some("body")
            THEN LoopEdges(m, Tail(edges), [acc EXCEPT !.body = Some(r.v)])
            ELSE LoopEdges(m, Tail(edges), [acc EXCEPT !.next = Some(r.v)])

IfBranchJson(cond, target_idx) == JObj([condition |-> JStr(cond), target |-> JNum(target_idx)])

\* The edge loop of the If arm.
RECURSIVE IfEdges_DefaultOverwrites(_, _, _, _)
IfEdges_DefaultOverwrites(m, edges, defined_branches, acc) ==
    IF edges = <<>> THEN Ok(acc)
    ELSE LET edge == Head(edges)
             r == resolve_target(m, edge.target)
             rest == Tail(edges)
         IN IF ~r.ok THEN r
            ELSE IF IsSome(edge.condition)
            THEN IfEdges_DefaultOverwrites(m, rest, defined_branches,
                         [acc EXCEPT !.branches = Append(@, IfBranchJson(edge.condition[1], r.v))])
            ELSE IF IsSome(edge.branch_index)
            THEN LET idx == edge.branch_index[1]
                 IN IF idx < Len(defined_branches)
                    THEN IF Has(defined_branches[idx + 1], "condition")
                         THEN IfEdges_DefaultOverwrites(m, rest, defined_branches,
                                      [acc EXCEPT !.branches =
                                          Append(@, IfBranchJson(defined_branches[idx + 1]["condition"], r.v))])
                         ELSE Err("Branch has no condition")
                    ELSE Err("Branch index out of bounds")
            ELSE IF edge.branch_type = Some("else")
            THEN IF IsSome(acc.else_next) THEN Err("Multiple else branches found")
                 ELSE IfEdges_DefaultOverwrites(m, rest, defined_branches,
                                                [acc EXCEPT !.else_next = Some(r.v)])
            ELSE IfEdges_DefaultOverwrites(m, rest, defined_branches,
                                           [acc EXCEPT !.else_next = Some(r.v)])

RECURSIVE IfEdges(_, _, _, _)
IfEdges(m, edges, defined_branches, acc) ==
    IF edges = <<>> THEN Ok(acc)
    ELSE LET edge == Head(edges)
             r == resolve_target(m, edge.target)
             rest == Tail(edges)
         IN IF ~r.ok THEN r
            ELSE IF IsSome(edge.condition)
            THEN IfEdges(m, rest, defined_branches,
                         [acc EXCEPT !.branches = Append(@, IfBranchJson(edge.condition[1], r.v))])
            ELSE IF IsSome(edge.branch_index)
            THEN LET idx == edge.branch_index[1]
                 IN IF idx < Len(defined_branches)
                    THEN IF Has(defined_branches[idx + 1], "condition")
                         THEN IfEdges(m, rest, defined_branches,
                                      [acc EXCEPT !.branches =
                                          Append(@, IfBranchJson(defined_branches[idx + 1]["condition"], r.v))])
                         ELSE Err("Branch has no condition")
                    ELSE Err("Branch index out of bounds")
            ELSE IF edge.branch_type = Some("else")
            THEN IF IsSome(acc.else_next) THEN Err("Multiple else branches found")
                 ELSE IfEdges(m, rest, defined_branches, [acc EXCEPT !.else_next = Some(r.v)])
            ELSE IF IsSome(acc.else_next) THEN Err("Multiple else/default branches found")
                 ELSE IfEdges(m, rest, defined_branches, [acc EXCEPT !.else_next = Some(r.v)])

\* The loop over branch_start_ids of the Fork arm.
RECURSIVE ForkTargets(_, _, _)
ForkTargets(m, ids, acc) ==
    IF ids = <<>> THEN Ok(acc)
    ELSE LET r == resolve_target(m, Head(ids))
         IN IF ~r.ok THEN r ELSE ForkTargets(m, Tail(ids), Append(acc, JNum(r.v)))

\* Compiler::transform_node
transform_node(m, node, all_edges) ==
    LET edges == OutEdges(all_edges, node.id)
    IN CASE node.kind = "Start" ->
               LET n == FirstNext(m, edges)
               IN IF ~n.ok THEN n
                  ELSE Ok(BlueprintNode("start", [next |-> JOptNum(n.v)]))
         [] node.kind = "End" ->
               Ok(BlueprintNode("end", [output |-> JStr(node.output)]))
         [] node.kind = "Function" ->
               LET n == FirstNext(m, edges)
               IN IF ~n.ok THEN n
                  ELSE Ok(BlueprintNode(node.name,
                            InsertIfSome(InsertIfSome(node.params, "next", n.v, JNum),
                                         "output", node.output, JStr)))
         [] node.kind = "Assign" ->
               LET n == FirstNext(m, edges)
               IN IF ~n.ok THEN n
                  ELSE Ok(BlueprintNode("assign",
                            InsertIfSome([assignments |-> JArr(node.assignments),
                                          expression |-> JOptStr(node.expression)],
                                         "next", n.v, JNum)))
         [] node.kind = "Iteration" ->
               LET r == IterationEdges(m, edges, [next |-> None, body |-> None])
               IN IF ~r.ok THEN r
                  ELSE Ok(BlueprintNode("iteration",
                            [collection |-> JStr(node.collection),
                             item_var |-> JStr(node.item_var),
                             next |-> JOptNum(r.v.next),
                             body |-> JOptNum(r.v.body)]))
         [] node.kind = "Loop" ->
               LET r == LoopEdges(m, edges, [next |-> None, body |-> None])
               IN IF ~r.ok THEN r
                  ELSE Ok(BlueprintNode("loop",
                            [condition |-> JStr(node.condition),
                             body |-> JOptNum(r.v.body),
                             next |-> JOptNum(r.v.next)]))
         [] node.kind = "If" ->
               LET r == IfEdges(m, edges, node.branches, [branches |-> <<>>, else_next |-> None])
               IN IF ~r.ok THEN r
                  ELSE Ok(BlueprintNode("if",
                            [branches |-> JArr(r.v.branches),
                             else_next |-> JOptNum(r.v.else_next)]))
         [] node.kind = "Parallel" -> Err("Parallel node should have been expanded")
         [] node.kind = "Fork" ->
               LET ts == ForkTargets(m, node.branch_start_ids, <<>>)
                   j == resolve_target(m, node.join_id)
               IN IF ~ts.ok THEN ts
                  ELSE IF ~j.ok THEN j
                  ELSE Ok(BlueprintNode("fork", [targets |-> JArr(ts.v), join_target |-> JNum(j.v)]))
         [] node.kind = "Join" ->
               LET n == FirstNext(m, edges)
               IN IF ~n.ok THEN n
                  ELSE Ok(BlueprintNode("join", [next |-> JOptNum(n.v),
                                                 expect_count |-> JNum(node.expect_count)]))

\* Pass 2 of compile: transform the nodes in order, stopping at the first error.
RECURSIVE TransformAll(_, _, _, _)
TransformAll(m, nodes, all_edges, acc) ==
    IF nodes = <<>> THEN Ok(acc)
    ELSE LET r == transform_node(m, Head(nodes), all_edges)
         IN IF ~r.ok THEN r ELSE TransformAll(m, Tail(nodes), all_edges, Append(acc, r.v))

\* workflow.nodes.iter().find(|n| matches!(n.kind, NodeType::Start))
FindStart(nodes) ==
    LET S == {i \in 1..Len(nodes) : nodes[i].kind = "Start"}
    IN IF S = {} THEN None ELSE Some(nodes[CHOOSE i \in S : \A j \in S : i <= j].id)

\* Compiler::compile(&mut self, raw_workflow): [id_map |-> self.id_map afterwards,
\* expanded |-> the expander's output, result |-> Ok(blueprint) or Err].
compile(m, raw_workflow) ==
    LET workflow == Expand(raw_workflow)
        p1 == IndexPass(workflow.nodes, 0, m)
    IN IF ~p1.ok
       THEN [id_map |-> p1.v, expanded |-> workflow, result |-> Err(p1.err)]
       ELSE LET p2 == TransformAll(p1.v, workflow.nodes, workflow.edges, <<>>)
                st == FindStart(workflow.nodes)
            IN [id_map |-> p1.v, expanded |-> workflow,
                result |-> IF ~p2.ok THEN p2
                           ELSE IF ~IsSome(st) THEN Err("Start node not found")
                           ELSE Ok([id |-> workflow.id, name |-> workflow.name,
                                    nodes |-> p2.v, start_index |-> p1.v[st[1]]])]

(***************************************************************************)
(* compiler::optimizer: extract_targets, the indices a blueprint node      *)
(* holds in its control-flow fields.                                       *)
(***************************************************************************)
RECURSIVE ConcatAll(_)
ConcatAll(seqs) == IF seqs = <<>> THEN <<>> ELSE Head(seqs) \o ConcatAll(Tail(seqs))

\* value.get(key) on a JSON value: Some for an object holding the key.
JValGet(val, key) == IF val.t = "obj" /\ Has(val.v, key) THEN Some(val.v[key]) ELSE None

extract_targets(node) ==
    LET p == node.params
        ts == AsArray(JGet(p, "targets"))
        bs == AsArray(JGet(p, "branches"))
    IN AsU64(JGet(p, "next"))
       \o (IF IsSome(ts) THEN ConcatAll([i \in 1..Len(ts[1]) |-> AsU64(Some(ts[1][i]))]) ELSE <<>>)
       \o AsU64(JGet(p, "join_target"))
       \o (IF IsSome(bs) THEN ConcatAll([i \in 1..Len(bs[1]) |-> AsU64(JValGet(bs[1][i], "target"))])
                         ELSE <<>>)
       \o AsU64(JGet(p, "else_next"))
       \o AsU64(JGet(p, "body"))

Range(f) == {f[i] : i \in DOMAIN f}

(***************************************************************************)
(* The authored workflows the specifications draw from.                    *)
(***************************************************************************)
IdNum(i) == <<"1", "2", "3", "4", "5", "6", "7", "8", "9">>[i]

\* A branch node as in tests/engine_test.rs: assign value=true into b<i>.
BranchNode(pfx, i, k) ==
    NFunction(pfx \o "b" \o IdNum(i) \o "_" \o IdNum(k), "assign",
              [value |-> JBool(TRUE)], Some("b" \o IdNum(i)))

\* A Parallel with one branch of one log node, to be placed inside a branch.
InnerParallel(pfx) ==
    NParallel(pfx \o "q", <<Branch(<<NFunction(pfx \o "inner", "log", EmptyMap, None)>>)>>)

\* A Function node whose name is that of a node definition the embedding program
\* registers itself (Engine::register_node).
FlakyFunction(pfx) == NFunction(pfx \o "flaky", "flaky", EmptyMap, None)

\* Start -> Parallel p [branch i has lens[i] nodes] -> x -> End
\* (tests/engine_test.rs, test_engine_parallel_join). The first node of branch 1 is
\* as `head` says: "plain" an assign like the others, "nested" itself a Parallel,
\* "flaky" a Function served by a user-registered node.
ParallelWf(pfx, lens, head) ==
    LET branch(i) == Branch([k \in 1..lens[i] |->
                        IF i = 1 /\ k = 1 /\ head = "nested" THEN InnerParallel(pfx)
                        ELSE IF i = 1 /\ k = 1 /\ head = "flaky" THEN FlakyFunction(pfx)
                        ELSE BranchNode(pfx, i, k)])
    IN Workflow(pfx \o "wf",
                <<NStart(pfx \o "start"),
                  NParallel(pfx \o "p", [i \in 1..Len(lens) |-> branch(i)]),
                  NFunction(pfx \o "x", "assign", [value |-> JStr("done")], Some("final_status")),
                  NEnd(pfx \o "end", "")>>,
                <<Edge(pfx \o "start", pfx \o "p"), Edge(pfx \o "p", pfx \o "x"),
                  Edge(pfx \o "x", pfx \o "end")>>)

\* Start -> f -> End (tests/compiler_test.rs), the Start edge pointing at `target`,
\* f with user parameters `fparams`, and f's edge to End present or not.
LinearWf(pfx, target, fparams, linked) ==
    Workflow(pfx \o "wf",
             <<NStart(pfx \o "start"), NFunction(pfx \o "f", "log", fparams, None),
               NEnd(pfx \o "end", "")>>,
             <<Edge(pfx \o "start", target)>>
                \o (IF linked THEN <<Edge(pfx \o "f", pfx \o "end")>> ELSE <<>>))

\* Start -> f1 -> f2 -> End (tests/engine_test.rs, test_engine_linear_execution):
\* f1 assigns "v1" to x, f2 assigns the value of x to y and carries the extra user
\* parameters `fparams`, End names the variable `output`; f2's edge to End is
\* present or not.
SeqWf(pfx, fparams, linked, output) ==
    Workflow(pfx \o "wf",
             <<NStart(pfx \o "start"),
               NFunction(pfx \o "f1", "assign", [value |-> JStr("v1")], Some("x")),
               NFunction(pfx \o "f2", "assign", fparams @@ [value |-> JStr("${x}")], Some("y")),
               NEnd(pfx \o "end", output)>>,
             <<Edge(pfx \o "start", pfx \o "f1"), Edge(pfx \o "f1", pfx \o "f2")>>
                \o (IF linked THEN <<Edge(pfx \o "f2", pfx \o "end")>> ELSE <<>>))

\* Start -> Fork [g1 -> End end1 | g2 -> End end2]: an authored Fork whose two
\* branches never meet; end1 outputs g1's variable, end2 outputs nothing.
ForkEndWf(pfx) ==
    Workflow(pfx \o "wf",
             <<NStart(pfx \o "start"),
               NFork(pfx \o "fk", <<pfx \o "g1", pfx \o "g2">>, pfx \o "g1"),
               NFunction(pfx \o "g1", "assign", [value |-> JStr("one")], Some("r1")),
               NFunction(pfx \o "g2", "assign", [value |-> JStr("two")], Some("r2")),
               NEnd(pfx \o "end1", "r1"),
               NEnd(pfx \o "end2", "")>>,
             <<Edge(pfx \o "start", pfx \o "fk"), Edge(pfx \o "g1", pfx \o "end1"),
               Edge(pfx \o "g2", pfx \o "end2")>>)

BranchLens == UNION {[1..n -> 0..MaxBranchLen] : n \in 0..MaxBranches}

UserParams == {EmptyMap, [msg |-> JStr("hello")], [next |-> JNum(9)]}

ParallelInputs == {ParallelWf("a_", lens, head) : lens \in BranchLens,
                                                   head \in {"plain", "nested"}}

LinearInputs == {LinearWf("b_", t, fp, l) : t \in {"b_f", "a_x", "nowhere"},
                                            fp \in UserParams, l \in BOOLEAN}

\* An outgoing edge as `tag` says: branch_type "body" or "else", a condition, a
\* branch_index, or none of them.
TaggedEdge(s, t, tag) ==
    CASE tag = "body" -> EdgeTyped(s, t, "body")
      [] tag = "else" -> EdgeTyped(s, t, "else")
      [] tag = "cond" -> EdgeCond(s, t, "x > 1")
      [] tag = "index" -> [Edge(s, t) EXCEPT !.branch_index = Some(0)]
      [] OTHER -> Edge(s, t)

\* Start -> c, c an Iteration, a Loop or an If with one outgoing edge per element
\* of `tags`, the i-th to the function t<i>, every t<i> -> End.
ControlWf(pfx, kind, tags) ==
    LET c == CASE kind = "Iteration" -> NIteration(pfx \o "c", "items", "item")
               [] kind = "Loop" -> NLoop(pfx \o "c", "x < 3")
               [] kind = "If" -> NIf(pfx \o "c", <<[condition |-> "x > 0"]>>)
        t(i) == pfx \o "t" \o IdNum(i)
    IN Workflow(pfx \o "wf",
                <<NStart(pfx \o "start"), c>>
                   \o [i \in 1..Len(tags) |-> NFunction(t(i), "log", EmptyMap, None)]
                   \o <<NEnd(pfx \o "end", "")>>,
                <<Edge(pfx \o "start", pfx \o "c")>>
                   \o [i \in 1..Len(tags) |-> TaggedEdge(pfx \o "c", t(i), tags[i])]
                   \o [i \in 1..Len(tags) |-> Edge(t(i), pfx \o "end")])

\* The tags an edge leaving a node of `kind` is given.
EdgeTags(kind) == IF kind = "If" THEN {"cond", "index", "else", "none"}
                                 ELSE {"body", "else", "none"}

ControlInputs ==
    UNION {{ControlWf("d_", kind, tags) :
                tags \in UNION {[1..n -> EdgeTags(kind)] : n \in 0..MaxOutEdges}} :
           kind \in {"Iteration", "Loop", "If"}}

\* Start -> Fork [g1 | g2] -> Join -> End, sound or with one flaw: g2 named like g1,
\* an extra edge from an undeclared node, an extra second edge of Start or a first
\* edge of g2 to an undeclared node, an undeclared branch start or join ID.
RefWf(pfx, flaw) ==
    LET ghost == pfx \o "ghost"
        g2 == IF flaw = "duplicate" THEN pfx \o "g1" ELSE pfx \o "g2"
    IN Workflow(pfx \o "wf",
                <<NStart(pfx \o "start"),
                  NFork(pfx \o "fk",
                        <<pfx \o "g1", IF flaw = "branch_start" THEN ghost ELSE g2>>,
                        IF flaw = "join_id" THEN ghost ELSE pfx \o "j"),
                  NFunction(pfx \o "g1", "log", EmptyMap, None),
                  NFunction(g2, "log", EmptyMap, None),
                  NJoin(pfx \o "j", 2),
                  NEnd(pfx \o "end", "")>>,
                <<Edge(pfx \o "start", pfx \o "fk")>>
                   \o (IF flaw = "second_target" THEN <<Edge(pfx \o "start", ghost)>> ELSE <<>>)
                   \o <<Edge(pfx \o "g1", pfx \o "j"),
                        Edge(g2, IF flaw = "first_target" THEN ghost ELSE pfx \o "j"),
                        Edge(pfx \o "j", pfx \o "end")>>
                   \o (IF flaw = "source" THEN <<Edge(ghost, pfx \o "end")>> ELSE <<>>))

RefInputs == {RefWf("e_", flaw) : flaw \in {"none", "duplicate", "source", "second_target",
                                              "first_target", "branch_start", "join_id"}}

(***************************************************************************)
(* SpecCompile: one Compiler value compiling workflows one after another   *)
(* (src/bin/skript.rs, the worker's preload loop), or replaced by a new    *)
(* Compiler.                                                               *)
(***************************************************************************)
NoCompile == [calls |-> 0]

Compiled(wf) ==
    LET r == compile(id_map, wf)
    IN /\ id_map' = r.id_map
       /\ comp' = [calls |-> comp.calls + 1, input |-> wf, expanded |-> r.expanded,
                   result |-> r.result, fresh |-> (id_map = EmptyMap)]
       /\ UNCHANGED <<backend, storeVars, engineVars, fusedVars, laterVars>>

\* compiler.compile(wf) on a Compiler that has compiled nothing yet.
CompileFirst ==
    /\ id_map = EmptyMap
    /\ \E wf \in ParallelInputs \cup LinearInputs \cup ControlInputs \cup RefInputs :
          Compiled(wf)

\* compiler.compile(wf) on a Compiler that has compiled before (explored on the
\* linear workflows).
CompileAgain ==
    /\ id_map # EmptyMap
    /\ comp.calls < MaxCompiles
    /\ \E wf \in LinearInputs : Compiled(wf)

\* Compiler::new()
NewCompiler ==
    /\ id_map # EmptyMap
    /\ id_map' = EmptyMap
    /\ comp' = NoCompile
    /\ UNCHANGED <<backend, storeVars, engineVars, fusedVars, laterVars>>

Callers == 1..MaxCalls

\* The (instance, node_index) the callers of SpecStore share.
StoreKey == <<1, 1>>

IdleCall == [pc |-> "idle", key |-> <<0, 0>>, prev |-> 0, ret |-> 0]

\* A caller enters decrement_join_count(instance, node_index, initial_count).
\* In memory: self.joins.entry(instance) takes the write lock of the instance's
\* shard, and the guard `inst_joins` lives to the end of the function; the
\* counter is created when absent.
DjcMemEnter(c) ==
    /\ backend = "mem"
    /\ calls[c].pc = "idle"
    /\ StoreKey[1] \notin joinLock
    /\ joinLock' = joinLock \cup {StoreKey[1]}
    /\ joins' = MemEntryOrInsert(joins, StoreKey, initial_count)
    /\ calls' = [calls EXCEPT ![c] = [pc |-> "fetch_sub",
                                      key |-> StoreKey,
                                      prev |-> 0, ret |-> 0]]
    /\ UNCHANGED <<backend, initial_count, engineVars, compVars, fusedVars, laterVars>>

\* let prev = counter_arc.fetch_sub(1, SeqCst); let new_val = prev - 1;
DjcMemFetchSub(c) ==
    /\ calls[c].pc = "fetch_sub"
    /\ joins' = [joins EXCEPT ![calls[c].key] = FetchSub1(@)]
    /\ calls' = [calls EXCEPT ![c].pc = "cleanup",
                              ![c].prev = joins[calls[c].key],
                              ![c].ret = joins[calls[c].key] - 1]
    /\ UNCHANGED <<backend, joinLock, initial_count, engineVars, compVars, fusedVars, laterVars>>

\* if new_val == 0 { inst_joins.remove(&node_index) }; Ok(new_val): the guard is
\* dropped on return.
DjcMemCleanup(c) ==
    /\ calls[c].pc = "cleanup"
    /\ joins' = MemCleanup(joins, calls[c].key, calls[c].ret)
    /\ joinLock' = joinLock \ {calls[c].key[1]}
    /\ calls' = [calls EXCEPT ![c].pc = "done"]
    /\ UNCHANGED <<backend, initial_count, engineVars, compVars, fusedVars, laterVars>>

\* Redis: the whole call is one script invocation.
DjcRedis(c) ==
    /\ backend = "redis"
    /\ calls[c].pc = "idle"
    /\ LET r == RedisScript(joins, StoreKey, initial_count)
       IN /\ joins' = r[1]
          /\ calls' = [calls EXCEPT ![c] = [pc |-> "done", key |-> StoreKey,
                                            prev |-> 0, ret |-> r[2]]]
    /\ UNCHANGED <<backend, joinLock, initial_count, engineVars, compVars, fusedVars, laterVars>>

\* The variables a specification does not use keep these values.
StoreUnused == /\ joins = EmptyMap /\ joinLock = {} /\ initial_count = 0
               /\ calls = [c \in Callers |-> IdleCall]

EngineUnused == /\ vars = EmptyMap /\ pending_joins = EmptyMap
                /\ blueprints = EmptyMap /\ queue = <<>> /\ capacity = 0
                /\ wrk = EmptyMap /\ started = {} /\ nextUuid = 0 /\ hist = EmptyMap

CompileUnused == id_map = EmptyMap /\ comp = NoCompile

FusedUnused == fz = EmptyMap

PrepareUnused == executable_cache = EmptyMap /\ eng = EmptyMap

OptimizeUnused == opt = EmptyMap

IterationUnused == it = EmptyMap

BackendsUnused == pair = EmptyMap

IfUnused == ifn = EmptyMap

LossyUnused == fw = EmptyMap

FrameUnused == fr = EmptyMap

RestUnused == LossyUnused /\ FrameUnused

LastUnused == IfUnused /\ RestUnused

LaterUnused ==
    PrepareUnused /\ OptimizeUnused /\ IterationUnused /\ BackendsUnused /\ LastUnused

InitStore ==
    /\ backend \in Backends
    /\ initial_count \in 1..MaxCount
    /\ joins = EmptyMap
    /\ joinLock = {}
    /\ calls = [c \in Callers |-> IdleCall]
    /\ EngineUnused /\ CompileUnused /\ FusedUnused /\ LaterUnused

NextStore ==
    \E c \in Callers :
        \/ DjcMemEnter(c)
        \/ DjcMemFetchSub(c)
        \/ DjcMemCleanup(c)
        \/ DjcRedis(c)

SpecStore == InitStore /\ [][NextStore]_allVars

CallsMade == {c \in Callers : calls[c].pc # "idle"}

CallsDone == {c \in Callers : calls[c].pc = "done"}

\* C2: when exactly initial_count = N calls have been made on the absent counter and
\* all have returned, the returned values are 0, 1, ..., N-1, each exactly once
\* (so exactly one call returned 0), in memory and on Redis.
C2_DecrementReturnsAllValues ==
    (Cardinality(CallsMade) = initial_count /\ CallsDone = CallsMade)
        => /\ {calls[c].ret : c \in CallsDone} = 0..(initial_count - 1)
           /\ Cardinality({c \in CallsDone : calls[c].ret = 0}) = 1

\* Three concurrent callers with initial_count 3 have all returned.
C2_Witness ==
    /\ initial_count = MaxCount
    /\ Cardinality(CallsDone) = MaxCount
    /\ Cardinality(CallsMade) = MaxCount

\* The number of returned calls whose value is r.
ReturnCount(r) == Cardinality({c \in CallsDone : calls[c].ret = r})

\* C24: a call that returns 0 leaves no counter entry for the key, and whenever
\* k * N calls have been made with initial_count N and all have returned, each of
\* the values 0 .. N-1 has been returned exactly k times (one 0 per round) and no
\* entry remains, in memory and on Redis.
C24_CounterRemovedAtZero ==
    /\ []((CallsDone = CallsMade /\ Cardinality(CallsMade) % initial_count = 0)
             => /\ \A r \in 0..(initial_count - 1) :
                      ReturnCount(r) * initial_count = Cardinality(CallsMade)
                /\ ~Has(joins, StoreKey))
    /\ [][\A c \in Callers :
             (calls[c].pc # "done" /\ calls'[c].pc = "done" /\ calls'[c].ret = 0)
                 => ~Has(joins', StoreKey)]_allVars

\* Two full rounds of a counter with initial_count 2 have returned.
C24_Witness ==
    /\ initial_count = 2
    /\ Cardinality(CallsDone) = 4
    /\ ReturnCount(0) = 2
    /\ ~Has(joins, StoreKey)

\* C29: every value a call has computed or returned lies in 0 .. initial_count-1,
\* and no stored counter is below 0 (no wrap-around of the usize), whatever the
\* number of calls and their interleaving.
C29_CounterStaysInRange ==
    /\ \A c \in Callers :
          calls[c].pc \in {"cleanup", "done"} => calls[c].ret \in 0..(initial_count - 1)
    /\ \A k \in DOMAIN joins : joins[k] >= 0

\* In memory, after more arrivals than initial_count, a call has decremented the
\* counter to 0 and not yet removed it while another caller has not entered yet.
C29_Witness ==
    /\ backend = "mem"
    /\ Cardinality(CallsDone) > initial_count
    /\ Has(joins, StoreKey) /\ joins[StoreKey] = 0
    /\ \E c, d \in Callers : calls[c].pc = "cleanup" /\ calls[d].pc = "idle"

InitCompile ==
    /\ backend = "mem"
    /\ id_map = EmptyMap
    /\ comp = NoCompile
    /\ StoreUnused /\ EngineUnused /\ FusedUnused /\ LaterUnused

NextCompile == CompileFirst \/ CompileAgain \/ NewCompiler

SpecCompile == InitCompile /\ [][NextCompile]_allVars

(***************************************************************************)
(* Claims on the compiler and the expander (SpecCompile).                  *)
(***************************************************************************)
ValidIndices(bp) ==
    /\ bp.start_index \in 0..(Len(bp.nodes) - 1)
    /\ \A i \in 1..Len(bp.nodes) :
          Range(extract_targets(bp.nodes[i])) \subseteq 0..(Len(bp.nodes) - 1)

\* C9: every blueprint compile returns has start_index and every index stored in
\* next, targets, join_target, branches[*].target, else_next and body within
\* 0..len(nodes)-1.
C9_BlueprintIndicesValid ==
    (comp.calls > 0 /\ comp.result.ok) => ValidIndices(comp.result.v)

\* C26: what compile returns for a workflow (Ok with the same blueprint, or Err)
\* is what a fresh Compiler returns for it, whatever the Compiler compiled before.
C26_CompileIgnoresHistory ==
    comp.calls > 0 => comp.result = compile(EmptyMap, comp.input).result

\* The ids of the Parallel nodes of an authored node list, those inside branches
\* included.
RECURSIVE ParallelIds(_)
ParallelIds(nodes) ==
    IF nodes = <<>> THEN {}
    ELSE LET node == Head(nodes)
         IN (IF node.kind = "Parallel"
             THEN {node.id} \cup UNION {ParallelIds(node.branches[b].nodes) :
                                           b \in 1..Len(node.branches)}
             ELSE {})
            \cup ParallelIds(Tail(nodes))

CountNodes(nodes, id, kind) ==
    Cardinality({i \in 1..Len(nodes) : nodes[i].id = id /\ nodes[i].kind = kind})

\* C10: the expanded workflow contains no Parallel node and exactly one Fork
\* P_fork and one Join P_join for every Parallel P of the authored workflow, a
\* Parallel inside a branch of another Parallel included.
C10_ExpansionRemovesEveryParallel ==
    comp.calls > 0 =>
        /\ \A i \in 1..Len(comp.expanded.nodes) : comp.expanded.nodes[i].kind # "Parallel"
        /\ \A pid \in ParallelIds(comp.input.nodes) :
              /\ CountNodes(comp.expanded.nodes, ForkId(pid), "Fork") = 1
              /\ CountNodes(comp.expanded.nodes, JoinId(pid), "Join") = 1

\* The edges of a workflow from `source` to `target`.
EdgesBetween(wf, source, target) ==
    {k \in 1..Len(wf.edges) : wf.edges[k].source = source /\ wf.edges[k].target = target}

\* The non-empty branches of a Parallel node.
NonEmptyBranches(parallel) ==
    {b \in 1..Len(parallel.branches) : parallel.branches[b].nodes # <<>>}

\* C36: for every Parallel P the expander expands (the Parallel nodes of the
\* workflow's node list), every authored edge that targeted P targets P_fork and
\* every authored edge that left P starts at P_join; there is exactly one edge
\* from the last node of each non-empty branch to P_join and exactly one between
\* consecutive nodes of a branch; and the Fork's branch starts and the Join's
\* expect_count both number the non-empty branches.
C36_ParallelExpansionShape ==
    comp.calls > 0 =>
        \A i \in 1..Len(comp.input.nodes) :
            comp.input.nodes[i].kind = "Parallel" =>
                LET P == comp.input.nodes[i]
                    ex == comp.expanded
                    ne == NonEmptyBranches(P)
                IN /\ Len(ex.edges) >= Len(comp.input.edges)
                   /\ \A k \in 1..Len(comp.input.edges) :
                         /\ comp.input.edges[k].target = P.id
                                => ex.edges[k].target = ForkId(P.id)
                         /\ comp.input.edges[k].source = P.id
                                => ex.edges[k].source = JoinId(P.id)
                   /\ \A k \in 1..Len(ex.edges) :
                         ex.edges[k].target # P.id /\ ex.edges[k].source # P.id
                   /\ \A b \in ne :
                         LET bn == P.branches[b].nodes
                         IN /\ Cardinality(EdgesBetween(ex, bn[Len(bn)].id, JoinId(P.id))) = 1
                            /\ \A j \in 1..(Len(bn) - 1) :
                                  Cardinality(EdgesBetween(ex, bn[j].id, bn[j + 1].id)) = 1
                   /\ \A n \in 1..Len(ex.nodes) :
                         /\ ex.nodes[n].id = ForkId(P.id)
                                => /\ ex.nodes[n].kind = "Fork"
                                   /\ Len(ex.nodes[n].branch_start_ids) = Cardinality(ne)
                                   /\ ex.nodes[n].join_id = JoinId(P.id)
                         /\ ex.nodes[n].id = JoinId(P.id)
                                => /\ ex.nodes[n].kind = "Join"
                                   /\ ex.nodes[n].expect_count = Cardinality(ne)
                   /\ CountNodes(ex.nodes, ForkId(P.id), "Fork") = 1
                   /\ CountNodes(ex.nodes, JoinId(P.id), "Join") = 1

\* A Parallel with an empty branch and a branch of two nodes, reached by one
\* edge and left by one edge, has been expanded.
C36_Witness ==
    /\ comp.calls > 0
    /\ \E i \in 1..Len(comp.input.nodes) :
          /\ comp.input.nodes[i].kind = "Parallel"
          /\ LET P == comp.input.nodes[i]
             IN /\ \E b \in 1..Len(P.branches) : P.branches[b].nodes = <<>>
                /\ \E b \in 1..Len(P.branches) : Len(P.branches[b].nodes) >= 2
                /\ \E k \in 1..Len(comp.input.edges) : comp.input.edges[k].target = P.id
                /\ \E k \in 1..Len(comp.input.edges) : comp.input.edges[k].source = P.id
                /\ \E n \in 1..Len(comp.expanded.nodes) :
                      /\ comp.expanded.nodes[n].id = JoinId(P.id)
                      /\ comp.expanded.nodes[n].expect_count = 1

\* The IDs a workflow declares, whether two of its nodes share one, and whether
\* an edge (as source or target) or a Fork (as branch start or join ID) names an
\* ID the workflow does not declare.
DeclaredIds(wf) == {wf.nodes[i].id : i \in 1..Len(wf.nodes)}

DuplicateIds(wf) ==
    \E i, j \in 1..Len(wf.nodes) : i # j /\ wf.nodes[i].id = wf.nodes[j].id

UndeclaredRefs(wf) ==
    \/ \E i \in 1..Len(wf.edges) :
          \/ wf.edges[i].source \notin DeclaredIds(wf)
          \/ wf.edges[i].target \notin DeclaredIds(wf)
    \/ \E i \in 1..Len(wf.nodes) :
          /\ wf.nodes[i].kind = "Fork"
          /\ \/ wf.nodes[i].join_id \notin DeclaredIds(wf)
             \/ \E k \in 1..Len(wf.nodes[i].branch_start_ids) :
                   wf.nodes[i].branch_start_ids[k] \notin DeclaredIds(wf)

\* C18: whenever the expanded workflow has two nodes with the same ID, or names
\* an undeclared ID as the source or target of an edge, as a Fork's branch start
\* or as a Fork's join ID, compile has returned an error (and so no blueprint).
C18_BadReferencesRejected ==
    (comp.calls > 0 /\ (DuplicateIds(comp.expanded) \/ UndeclaredRefs(comp.expanded)))
        => ~comp.result.ok

\* The outgoing edges of node `id` of a workflow that satisfy P.
CountOut(wf, id, P(_)) ==
    Cardinality({i \in 1..Len(wf.edges) : wf.edges[i].source = id /\ P(wf.edges[i])})

IsBody(edge) == edge.branch_type = Some("body")

IsExit(edge) == edge.branch_type # Some("body")

IsUnconditioned(edge) == edge.condition = None /\ edge.branch_index = None

\* C19: whenever an Iteration node or a Loop node of the expanded workflow has more
\* than one outgoing "body" edge, or more than one outgoing edge that is not a
\* "body" edge, compile has returned an error.
C19_ManyBodyOrExitRejected ==
    (/\ comp.calls > 0
     /\ \E i \in 1..Len(comp.expanded.nodes) :
           /\ comp.expanded.nodes[i].kind \in {"Iteration", "Loop"}
           /\ \/ CountOut(comp.expanded, comp.expanded.nodes[i].id, IsBody) > 1
              \/ CountOut(comp.expanded, comp.expanded.nodes[i].id, IsExit) > 1)
        => ~comp.result.ok

\* C20: whenever an If node of the expanded workflow has more than one outgoing
\* edge with neither a condition nor a branch_index, tagged "else" or not, compile
\* has returned an error.
C20_ManyDefaultsRejected ==
    (/\ comp.calls > 0
     /\ \E i \in 1..Len(comp.expanded.nodes) :
           /\ comp.expanded.nodes[i].kind = "If"
           /\ CountOut(comp.expanded, comp.expanded.nodes[i].id, IsUnconditioned) > 1)
        => ~comp.result.ok

\* A fresh Compiler was given an If with an "else" edge followed by an untagged
\* edge, and returned the error of the If arm.
C20_Witness ==
    /\ comp.calls > 0
    /\ comp.fresh
    /\ \E i \in 1..Len(comp.expanded.nodes) :
          /\ comp.expanded.nodes[i].kind = "If"
          /\ CountOut(comp.expanded, comp.expanded.nodes[i].id, IsUnconditioned) > 1
          /\ CountOut(comp.expanded, comp.expanded.nodes[i].id,
                      LAMBDA e : e.branch_type = Some("else")) = 1
    /\ ~comp.result.ok
    /\ comp.result.err = "Multiple else/default branches found"

(***************************************************************************)
(* The state store's variables (runtime::storage, StateStore).             *)
(***************************************************************************)
\* get_var(instance_id, key): None when the instance or the key is absent.
get_var(v, instance_id, key) ==
    IF Has(v, instance_id) /\ Has(v[instance_id], key) THEN Some(v[instance_id][key]) ELSE None

\* set_var(instance_id, key, value): the instance entry is created when absent.
set_var(v, instance_id, key, value) ==
    LET inst_vars == IF Has(v, instance_id) THEN v[instance_id] ELSE EmptyMap
    IN Put(v, instance_id, Put(inst_vars, key, value))

\* init_instance(instance_id, initial_vars): in memory the instance's map is
\* inserted; on Redis the pairs are HSET into the instance's hash, and nothing is
\* sent when there are none.
init_instance(v, instance_id, initial_vars) ==
    IF backend = "mem" THEN Put(v, instance_id, initial_vars)
    ELSE IF initial_vars = EmptyMap THEN v
    ELSE Put(v, instance_id,
             [k \in DOMAIN initial_vars \cup (IF Has(v, instance_id) THEN DOMAIN v[instance_id] ELSE {})
                 |-> IF k \in DOMAIN initial_vars THEN initial_vars[k] ELSE v[instance_id][k]])

(***************************************************************************)
(* The task queue (TaskQueue): a bounded mpsc channel in memory, a list    *)
(* with LPUSH / BRPOP on Redis.                                            *)
(***************************************************************************)
\* push can complete: sender.send waits while the channel holds `capacity` tasks.
CanPush(q) == backend = "redis" \/ Len(q) < capacity

\* The queue after push(task): the channel appends, LPUSH prepends.
Pushed_Right(q, task) == Append(q, task)

Pushed(q, task) == IF backend = "mem" THEN Append(q, task) ELSE <<task>> \o q

\* The task pop returns from a non-empty queue: the channel's head, BRPOP's tail.
PopTask(q) == IF backend = "mem" THEN Head(q) ELSE q[Len(q)]

\* The queue after that pop.
Popped(q) == IF backend = "mem" THEN Tail(q) ELSE SubSeq(q, 1, Len(q) - 1)

(***************************************************************************)
(* Tasks and the syscalls a node buffers (EngineSyscall).                  *)
(***************************************************************************)
Task(instance_id, workflow_id, token_id, node_index, flow_id) ==
    [instance_id |-> instance_id, workflow_id |-> workflow_id, token_id |-> token_id,
     node_index |-> node_index, flow_id |-> flow_id]

\* jump(target): the follow-up task keeps the token of the executing task.
jump_FlowFromToken(task, pending_tasks, target) ==
    Append(pending_tasks, [task EXCEPT !.node_index = target, !.flow_id = task.token_id])

jump(task, pending_tasks, target) ==
    Append(pending_tasks, [task EXCEPT !.node_index = target])

\* The token of a task fork creates: Uuid::new_v4().
ForkTokenId_Inherit(task, fresh) == task.token_id

ForkTokenId(task, fresh) == fresh

\* fork(targets): one follow-up task per target, `uuid` being the next fresh Uuid.
fork_LosesFirstTarget(task, pending_tasks, targets, uuid) ==
    pending_tasks \o [i \in 1..(Len(targets) - 1) |->
                        [task EXCEPT !.token_id = ForkTokenId(task, uuid + i),
                                     !.node_index = targets[i + 1]]]

fork(task, pending_tasks, targets, uuid) ==
    pending_tasks \o [i \in 1..Len(targets) |->
                        [task EXCEPT !.token_id = ForkTokenId(task, uuid + i - 1),
                                     !.node_index = targets[i]]]

\* wait(): nothing is buffered.
wait(task, pending_tasks) == pending_tasks

\* terminate(): nothing is buffered.
terminate_Requeues(task, pending_tasks) == Append(pending_tasks, task)

terminate(task, pending_tasks) == pending_tasks

(***************************************************************************)
(* Node definitions: prepare turns a blueprint node into a runtime node.   *)
(***************************************************************************)
RECURSIVE U64s(_)
U64s(arr) == IF arr = <<>> THEN <<>> ELSE AsU64(Some(Head(arr))) \o U64s(Tail(arr))

StartDefinition_prepare(params) ==
    Ok([node |-> "StartNode", next |-> AsU64(JGet(params, "next"))])

EndDefinition_prepare(params) ==
    LET o == AsStr(JGet(params, "output"))
    IN Ok([node |-> "EndNode", output_var |-> IF IsSome(o) THEN o[1] ELSE ""])

ForkDefinition_prepare(params) ==
    LET arr == AsArray(JGet(params, "targets"))
    IN Ok([node |-> "ForkNode", targets |-> IF IsSome(arr) THEN U64s(arr[1]) ELSE <<>>])

JoinDefinition_prepare(params) ==
    LET ec == AsU64(JGet(params, "expect_count"))
    IN IF IsSome(ec)
       THEN Ok([node |-> "JoinNode", next |-> AsU64(JGet(params, "next")),
                expect_count |-> ec[1]])
       ELSE Err("Missing expect_count")

ActionNodeDefinition_prepare(handler, params) ==
    Ok([node |-> "ActionNode", handler |-> handler, params |-> params,
        output |-> AsStr(JGet(params, "output")), next |-> AsU64(JGet(params, "next"))])

\* A node the embedding program registers under the name "flaky": it buffers
\* jump(next) and then returns Ok, returns an error, or never returns.
FlakyDefinition_prepare(params) ==
    Ok([node |-> "FlakyNode", next |-> AsU64(JGet(params, "next"))])

\* Engine.node_registry as the tests and the binaries fill it, plus "flaky".
node_registry == {"start", "end", "fork", "join", "assign", "log", "flaky"}

prepare(bp_node) ==
    CASE bp_node.kind = "start" -> StartDefinition_prepare(bp_node.params)
      [] bp_node.kind = "end" -> EndDefinition_prepare(bp_node.params)
      [] bp_node.kind = "fork" -> ForkDefinition_prepare(bp_node.params)
      [] bp_node.kind = "join" -> JoinDefinition_prepare(bp_node.params)
      [] bp_node.kind \in {"assign", "log"} ->
            ActionNodeDefinition_prepare(bp_node.kind, bp_node.params)
      [] bp_node.kind = "flaky" -> FlakyDefinition_prepare(bp_node.params)
      [] OTHER -> Err("Node definition not found")

prepare_blueprint_SkipsFailed(bps, blueprint_id) ==
    IF ~Has(bps, blueprint_id) THEN Err("Blueprint not found")
    ELSE LET bp == bps[blueprint_id]
             good == SelectSeq(bp.nodes, LAMBDA n : n.kind \in node_registry /\ prepare(n).ok)
         IN Ok([i \in 1..Len(good) |-> prepare(good[i]).v])

\* prepare_blueprint(blueprint_id): the runtime nodes of a registered blueprint.
prepare_blueprint(bps, blueprint_id) ==
    IF ~Has(bps, blueprint_id) THEN Err("Blueprint not found")
    ELSE LET bp == bps[blueprint_id]
             prepared == [i \in 1..Len(bp.nodes) |->
                             IF bp.nodes[i].kind \in node_registry
                             THEN prepare(bp.nodes[i])
                             ELSE Err("Node definition not found")]
         IN IF \A i \in 1..Len(prepared) : prepared[i].ok
            THEN Ok([i \in 1..Len(prepared) |-> prepared[i].v])
            ELSE Err("prepare failed")

(***************************************************************************)
(* Node::execute of the nodes, the Join apart (it takes two steps).        *)
(***************************************************************************)
StartsWith(str, prefix) == Len(str) >= Len(prefix) /\ SubSeq(str, 1, Len(prefix)) = prefix

EndsWith(str, suffix) ==
    Len(str) >= Len(suffix) /\ SubSeq(str, Len(str) - Len(suffix) + 1, Len(str)) = suffix

\* s.starts_with("${") && s.ends_with("}")
IsPlaceholder(str) == StartsWith(str, "${") /\ EndsWith(str, "}")

\* &s[2..s.len()-1]
PlaceholderName(str) == SubSeq(str, 3, Len(str) - 1)

\* ActionNode::execute, step 1: every top-level string parameter "${name}" is
\* replaced by the value of variable `name` when that variable exists.
ResolveParams(params, v, instance_id) ==
    [k \in DOMAIN params |->
        IF params[k].t = "str" /\ IsPlaceholder(params[k].v)
           /\ IsSome(get_var(v, instance_id, PlaceholderName(params[k].v)))
        THEN get_var(v, instance_id, PlaceholderName(params[k].v))[1]
        ELSE params[k]]

\* LogAction::execute: logs, returns Null.
LogAction_execute(params, v, instance_id) == [result |-> JNull, vars |-> v]

\* The writes of the "assignments" list of AssignAction, in order.
RECURSIVE AssignList(_, _, _)
AssignList(list, v, instance_id) ==
    IF list = <<>> THEN v
    ELSE LET item == Head(list)
             k == AsStr(JValGet(item, "key"))
             val == JValGet(item, "value")
         IN AssignList(Tail(list),
                       IF IsSome(k) /\ IsSome(val) THEN set_var(v, instance_id, k[1], val[1])
                                                   ELSE v,
                       instance_id)

\* AssignAction::execute for parameters without "expression" (the workflows of
\* this model carry none): the assignments list is written, "value" is returned.
AssignAction_execute(params, v, instance_id) ==
    LET list == AsArray(JGet(params, "assignments"))
        v1 == IF IsSome(list) THEN AssignList(list[1], v, instance_id) ELSE v
        val == JGet(params, "value")
    IN [result |-> IF IsSome(val) THEN val[1] ELSE JNull, vars |-> v1]

handler_execute(handler, params, v, instance_id) ==
    IF handler = "assign" THEN AssignAction_execute(params, v, instance_id)
                          ELSE LogAction_execute(params, v, instance_id)

\* What one call of execute leaves: the store, the buffered follow-up tasks, the
\* next fresh Uuid, and how the call ended under the engine's timeout.
Executed(v, pending_tasks, uuid, outcome) ==
    [vars |-> v, pending |-> pending_tasks, uuid |-> uuid, outcome |-> outcome]

JumpNext(task, next) == IF IsSome(next) THEN jump(task, <<>>, next[1]) ELSE <<>>

StartNode_execute(node, task, v, uuid) ==
    {Executed(v, JumpNext(task, node.next), uuid, "ok")}

\* EndNode::execute, the set_var calls it makes: _WORKFLOW_OUTPUT gets the value of
\* output_var when output_var is not empty and the variable is found.
EndNode_writes_Always(node, task, v) ==
    LET val == get_var(v, task.instance_id, node.output_var)
    IN <<[key |-> "_WORKFLOW_OUTPUT", value |-> IF IsSome(val) THEN val[1] ELSE JNull]>>

EndNode_writes(node, task, v) ==
    LET val == get_var(v, task.instance_id, node.output_var)
    IN IF node.output_var # "" /\ IsSome(val)
       THEN <<[key |-> "_WORKFLOW_OUTPUT", value |-> val[1]]>>
       ELSE <<>>

\* The store after a sequence of set_var calls.
RECURSIVE ApplyWrites(_, _, _)
ApplyWrites(v, instance_id, writes) ==
    IF writes = <<>> THEN v
    ELSE ApplyWrites(set_var(v, instance_id, Head(writes).key, Head(writes).value),
                     instance_id, Tail(writes))

\* EndNode::execute: the writes, then terminate().
EndNode_execute(node, task, v, uuid) ==
    {Executed(ApplyWrites(v, task.instance_id, EndNode_writes(node, task, v)),
              terminate(task, <<>>), uuid, "ok")}

ForkNode_execute(node, task, v, uuid) ==
    {Executed(v, fork(task, <<>>, node.targets, uuid), uuid + Len(node.targets), "ok")}

ActionNode_execute_OutputLost(node, task, v, uuid) ==
    {Executed(handler_execute(node.handler, ResolveParams(node.params, v, task.instance_id),
                              v, task.instance_id).vars,
              JumpNext(task, node.next), uuid, "ok")}

ActionNode_execute(node, task, v, uuid) ==
    LET resolved_params == ResolveParams(node.params, v, task.instance_id)
        r == handler_execute(node.handler, resolved_params, v, task.instance_id)
        v1 == IF IsSome(node.output)
              THEN set_var(r.vars, task.instance_id, node.output[1], r.result)
              ELSE r.vars
    IN {Executed(v1, JumpNext(task, node.next), uuid, "ok")}

FlakyNode_execute(node, task, v, uuid) ==
    {Executed(v, JumpNext(task, node.next), uuid, o) : o \in {"ok", "err", "timeout"}}

execute(node, task, v, uuid) ==
    CASE node.node = "StartNode" -> StartNode_execute(node, task, v, uuid)
      [] node.node = "EndNode" -> EndNode_execute(node, task, v, uuid)
      [] node.node = "ForkNode" -> ForkNode_execute(node, task, v, uuid)
      [] node.node = "ActionNode" -> ActionNode_execute(node, task, v, uuid)
      [] node.node = "FlakyNode" -> FlakyNode_execute(node, task, v, uuid)

\* JoinNode::execute: pending_joins.entry(idx).or_insert_with(expect_count)
or_insert_with_Overwrite(m, key, init) == Put(m, key, init)

or_insert_with(m, key, init) == IF Has(m, key) THEN m ELSE Put(m, key, init)

\* JoinNode::execute: prev == 1
ShouldProceed_OnAnyArrival(prev) == prev >= 1

ShouldProceed(prev) == prev = 1

\* run_worker: the tasks pushed after execute ended with `outcome`.
FollowUps_FlushAlways(outcome, pending_tasks) == pending_tasks

FollowUps(outcome, pending_tasks) == IF outcome = "ok" THEN pending_tasks ELSE <<>>

(***************************************************************************)
(* Spec: one registered blueprint, one submitted instance, the workers.    *)
(***************************************************************************)
Workers == 1..NumWorkers

\* A worker slot whose run_worker has not been spawned.
NoWorker == [pc |-> "off", task |-> None, pending |-> <<>>, outcome |-> "none",
             proceed |-> FALSE]

PoppingWorker == [pc |-> "pop", task |-> None, pending |-> <<>>, outcome |-> "none",
                  proceed |-> FALSE]

TheBlueprint == blueprints[CHOOSE id \in DOMAIN blueprints : TRUE]

Nodes(workflow_id) == prepare_blueprint(blueprints, workflow_id).v

\* The producer start_workflow pushes as; a worker pushes as its own number.
Submitter == "submitter"

\* What has happened so far, kept for the claims: per node the tasks that began
\* executing and the executions that returned, the Join's decisions, the numbers of
\* pushes and pops, the pushes not yet popped in push order with their producers,
\* per worker, from a successful execution until its flush is over, the tasks the
\* execution buffered and those pushed so far,
\* and the writes of _WORKFLOW_OUTPUT.
NoHistory(bp) ==
    [exec |-> [i \in 0..(Len(bp.nodes) - 1) |-> 0],
     begun |-> [i \in 0..(Len(bp.nodes) - 1) |-> 0],
     join_jumps |-> 0, join_waits |-> 0, join_done |-> 0, join_tasks |-> 0,
     pushed |-> 0, popped |-> 0, failed |-> 0, dropped |-> 0,
     fifo |-> <<>>,
     buffered |-> [w \in Workers |-> <<>>],
     flushed |-> [w \in Workers |-> <<>>],
     end_execs |-> 0, output_writes |-> 0]

\* The pushes not yet popped, `task` having been popped.
RECURSIVE WithoutFirst(_, _)
WithoutFirst(fifo, task) ==
    IF fifo = <<>> THEN <<>>
    ELSE IF Head(fifo).task = task THEN Tail(fifo)
    ELSE <<Head(fifo)>> \o WithoutFirst(Tail(fifo), task)

\* Engine::start_workflow(blueprint_id, {}): the instance is initialised and the
\* initial task is pushed.
StartWorkflow ==
    /\ started = {}
    /\ \E blueprint_id \in DOMAIN blueprints :
          /\ prepare_blueprint(blueprints, blueprint_id).ok
          /\ CanPush(queue)
          /\ LET instance_id == nextUuid
                 task == Task(instance_id, blueprint_id, nextUuid + 1,
                              blueprints[blueprint_id].start_index, nextUuid + 2)
             IN /\ vars' = init_instance(vars, instance_id, EmptyMap)
                /\ queue' = Pushed(queue, task)
                /\ started' = started \cup {instance_id}
                /\ nextUuid' = nextUuid + 3
                /\ hist' = [hist EXCEPT !.pushed = @ + 1,
                                        !.fifo = Append(@, [by |-> Submitter, task |-> task])]
    /\ UNCHANGED <<backend, storeVars, pending_joins, blueprints, capacity, wrk,
                   compVars, fusedVars, laterVars>>

\* run_worker: pop returns Ok(Some(task)); a task whose node_index is out of
\* bounds is logged and the loop continues.
Pop(w) ==
    /\ wrk[w].pc = "pop"
    /\ queue # <<>>
    /\ LET task == PopTask(queue)
           runs == /\ prepare_blueprint(blueprints, task.workflow_id).ok
                   /\ task.node_index < Len(Nodes(task.workflow_id))
       IN /\ queue' = Popped(queue)
          /\ wrk' = [wrk EXCEPT ![w] =
                        IF runs
                        THEN [PoppingWorker EXCEPT !.pc = "exec", !.task = Some(task)]
                        ELSE PoppingWorker]
          /\ hist' = [hist EXCEPT !.popped = @ + 1,
                                  !.fifo = WithoutFirst(@, task),
                                  !.begun = IF runs THEN [@ EXCEPT ![task.node_index] = @ + 1]
                                            ELSE @]
    /\ UNCHANGED <<backend, storeVars, vars, pending_joins, blueprints, capacity,
                   started, nextUuid, compVars, fusedVars, laterVars>>

\* run_worker on Redis: BRPOP times out on the empty list, pop returns Ok(None)
\* and the loop breaks. (The in-memory pop waits in recv.)
PopTimeout(w) ==
    /\ backend = "redis"
    /\ wrk[w].pc = "pop"
    /\ queue = <<>>
    /\ wrk' = [wrk EXCEPT ![w].pc = "stopped"]
    /\ UNCHANGED <<backend, storeVars, vars, pending_joins, blueprints, queue, capacity,
                   started, nextUuid, hist, compVars, fusedVars, laterVars>>

\* run_worker: timeout(60 s, node.execute(..)) for every node but the Join.
Exec(w) ==
    /\ wrk[w].pc = "exec"
    /\ LET task == wrk[w].task[1]
           node == Nodes(task.workflow_id)[task.node_index + 1]
       IN /\ node.node # "JoinNode"
          /\ \E r \in execute(node, task, vars, nextUuid) :
                /\ vars' = r.vars
                /\ nextUuid' = r.uuid
                /\ wrk' = [wrk EXCEPT ![w].pc = "ret", ![w].pending = r.pending,
                                      ![w].outcome = r.outcome]
                /\ hist' = [hist EXCEPT
                              !.exec[task.node_index] = @ + 1,
                              !.failed = @ + IF r.outcome = "ok" THEN 0 ELSE 1,
                              !.buffered[w] = IF r.outcome = "ok" THEN r.pending ELSE <<>>,
                              !.end_execs = @ + IF node.node = "EndNode" THEN 1 ELSE 0,
                              !.output_writes = @ + IF node.node = "EndNode"
                                                    THEN Len(EndNode_writes(node, task, vars))
                                                    ELSE 0]
    /\ UNCHANGED <<backend, storeVars, pending_joins, blueprints, queue, capacity,
                   started, compVars, fusedVars, laterVars>>

\* JoinNode::execute, the block computing should_proceed: under the entry's lock
\* the counter is created when absent and decremented.
JoinDecrement(w) ==
    /\ wrk[w].pc = "exec"
    /\ LET task == wrk[w].task[1]
           node == Nodes(task.workflow_id)[task.node_index + 1]
           key == <<task.instance_id, task.node_index>>
       IN /\ node.node = "JoinNode"
          /\ LET m == or_insert_with(pending_joins, key, node.expect_count)
             IN /\ pending_joins' = [m EXCEPT ![key] = FetchSub1(@)]
                /\ wrk' = [wrk EXCEPT ![w].pc = "join",
                                      ![w].proceed = ShouldProceed(m[key])]
          /\ hist' = [hist EXCEPT !.exec[task.node_index] = @ + 1]
    /\ UNCHANGED <<backend, storeVars, vars, blueprints, queue, capacity, started,
                   nextUuid, compVars, fusedVars, laterVars>>

\* JoinNode::execute, the rest: remove the counter and jump(next), or wait().
JoinFinish(w) ==
    /\ wrk[w].pc = "join"
    /\ LET task == wrk[w].task[1]
           node == Nodes(task.workflow_id)[task.node_index + 1]
           key == <<task.instance_id, task.node_index>>
           out == IF wrk[w].proceed THEN JumpNext(task, node.next) ELSE wait(task, <<>>)
       IN /\ pending_joins' = IF wrk[w].proceed /\ Has(pending_joins, key)
                              THEN Del(pending_joins, key) ELSE pending_joins
          /\ wrk' = [wrk EXCEPT ![w].pc = "ret", ![w].pending = out, ![w].outcome = "ok"]
          /\ hist' = [hist EXCEPT
                        !.join_done = @ + 1,
                        !.join_jumps = @ + IF wrk[w].proceed /\ IsSome(node.next) THEN 1 ELSE 0,
                        !.join_waits = @ + IF wrk[w].proceed THEN 0 ELSE 1,
                        !.join_tasks = @ + Len(out),
                        !.buffered[w] = out]
    /\ UNCHANGED <<backend, storeVars, vars, blueprints, queue, capacity, started,
                   nextUuid, compVars, fusedVars, laterVars>>

\* run_worker, the match on the result of the timed execute: Ok(Ok(())) goes on to
\* flush pending_tasks; Ok(Err(e)) and Err(_) log, and the loop pops again.
Dispatch(w) ==
    /\ wrk[w].pc = "ret"
    /\ LET out == FollowUps(wrk[w].outcome, wrk[w].pending)
       IN /\ wrk' = [wrk EXCEPT ![w] = [PoppingWorker EXCEPT
                                          !.pc = IF out = <<>> THEN "pop" ELSE "flush",
                                          !.pending = out]]
          /\ hist' = [hist EXCEPT !.dropped = @ + Len(wrk[w].pending) - Len(out)]
    /\ UNCHANGED <<backend, storeVars, vars, pending_joins, blueprints, queue, capacity,
                   started, nextUuid, compVars, fusedVars, laterVars>>

\* run_worker, the flush loop: one task_queue.push(new_task).await.
Flush(w) ==
    /\ wrk[w].pc = "flush"
    /\ CanPush(queue)
    /\ queue' = Pushed(queue, Head(wrk[w].pending))
    /\ wrk' = [wrk EXCEPT ![w].pending = Tail(@),
                          ![w].pc = IF Tail(wrk[w].pending) = <<>> THEN "pop" ELSE "flush"]
    /\ hist' = [hist EXCEPT
                  !.pushed = @ + 1,
                  !.fifo = Append(@, [by |-> w, task |-> Head(wrk[w].pending)]),
                  !.buffered[w] = IF Tail(wrk[w].pending) = <<>> THEN <<>> ELSE @,
                  !.flushed[w] = IF Tail(wrk[w].pending) = <<>> THEN <<>>
                                 ELSE Append(@, Head(wrk[w].pending))]
    /\ UNCHANGED <<backend, storeVars, vars, pending_joins, blueprints, capacity,
                   started, nextUuid, compVars, fusedVars, laterVars>>

\* The workflows the engine runs: the parallel workflow of the tests, a branch
\* being empty or one assign node, or branch 1 being one user-registered node.
EngineLens == UNION {[1..n -> 0..1] : n \in 0..MaxBranches}

\* The linear workflow of the tests, its End naming no variable, the variable f2
\* writes, or one nobody writes; and f2 with a user parameter "next" and no edge.
SeqInputs == {SeqWf("a_", fp, fp = EmptyMap, o) : fp \in {EmptyMap, [next |-> JNum(9)]},
                                                  o \in {"", "y", "nope"}}

EngineInputs ==
    {ParallelWf("a_", lens, head) : lens \in EngineLens, head \in {"plain", "flaky"}}
    \cup SeqInputs \cup {ForkEndWf("a_")}

\* Engine::register_blueprint(blueprint)
register_blueprint(bps, blueprint) == Put(bps, blueprint.id, blueprint)

Init ==
    /\ backend \in Backends
    /\ capacity \in IF backend = "mem" THEN 1..MaxCapacity ELSE {0}
    /\ \E wf \in EngineInputs :
          LET bp == compile(EmptyMap, wf).result.v
          IN /\ blueprints = register_blueprint(EmptyMap, bp)
             /\ hist = NoHistory(bp)
    /\ \E n \in 1..NumWorkers :
          wrk = [w \in Workers |-> IF w <= n THEN PoppingWorker ELSE NoWorker]
    /\ vars = EmptyMap
    /\ pending_joins = EmptyMap
    /\ queue = <<>>
    /\ started = {}
    /\ nextUuid = 1
    /\ StoreUnused /\ CompileUnused /\ FusedUnused /\ LaterUnused

Next ==
    \/ StartWorkflow
    \/ \E w \in Workers :
          \/ Pop(w)
          \/ PopTimeout(w)
          \/ Exec(w)
          \/ JoinDecrement(w)
          \/ JoinFinish(w)
          \/ Dispatch(w)
          \/ Flush(w)

Spec == Init /\ [][Next]_allVars

(***************************************************************************)
(* Claims on the engine (Spec).                                            *)
(***************************************************************************)
\* The positions (0-based, as in the blueprint) of the Join of the registered
\* blueprint and of the node its `next` designates, and its expect_count.
\* (A blueprint without a Join has no such position: -1, and expect_count 0.)
HasJoin == \E i \in 1..Len(TheBlueprint.nodes) : TheBlueprint.nodes[i].kind = "join"

JoinIndex ==
    IF HasJoin
    THEN CHOOSE i \in 0..(Len(TheBlueprint.nodes) - 1) : TheBlueprint.nodes[i + 1].kind = "join"
    ELSE -1

JoinNextIndex == IF HasJoin THEN TheBlueprint.nodes[JoinIndex + 1].params.next.v ELSE -1

JoinExpectCount == IF HasJoin THEN TheBlueprint.nodes[JoinIndex + 1].params.expect_count.v ELSE 0

ExecutingWorkers == {w \in Workers : wrk[w].pc \in {"exec", "join", "ret"}}

\* The tasks that are queued, being executed, or buffered by a worker that is
\* flushing them.
LiveTasks ==
    queue \o ConcatAll([w \in Workers |->
                          IF w \in ExecutingWorkers THEN wrk[w].task
                          ELSE IF wrk[w].pc = "flush" THEN wrk[w].pending
                          ELSE <<>>])

C3_OneWorkerPerToken ==
    /\ \A i, j \in 1..Len(LiveTasks) :
          i # j => LiveTasks[i].token_id # LiveTasks[j].token_id
    /\ hist.popped + Len(queue) = hist.pushed

\* Two workers execute tasks of the instance at the same time.
C3_Witness ==
    /\ Cardinality(ExecutingWorkers) >= 2
    /\ \A w \in ExecutingWorkers : wrk[w].task[1].instance_id \in started

\* The variables written by the nodes that precede the Join: the outputs of the
\* assign nodes of the branches.
BranchOutputs ==
    {TheBlueprint.nodes[i].params.output.v :
        i \in {k \in 1..Len(TheBlueprint.nodes) :
                  /\ TheBlueprint.nodes[k].kind = "assign"
                  /\ k - 1 # JoinNextIndex}}

\* The tasks for node `idx` that are queued or being executed.
ScheduledAt(idx) ==
    {queue[i] : i \in {k \in 1..Len(queue) : queue[k].node_index = idx}}
    \cup {wrk[w].task[1] : w \in {x \in ExecutingWorkers : wrk[x].task[1].node_index = idx}}

C6_ParallelWorkflowCompletes ==
    (/\ started # {}
     /\ hist.failed = 0
     /\ JoinExpectCount >= 1
     /\ ~ENABLED Next)
        => \A i \in 0..(Len(TheBlueprint.nodes) - 1) : hist.exec[i] = 1

\* The position of the Fork in the blueprint's node list (-1 without a Fork).
ForkIndex ==
    IF \E i \in 1..Len(TheBlueprint.nodes) : TheBlueprint.nodes[i].kind = "fork"
    THEN CHOOSE i \in 0..(Len(TheBlueprint.nodes) - 1) : TheBlueprint.nodes[i + 1].kind = "fork"
    ELSE -1

\* C39 (as a statement on settled runs): the Join never issues more jumps than
\* the Fork has executions, and once the token of a run without node failures
\* has executed the Fork of an expanded Parallel and no task of the instance is
\* queued, being executed or waiting to be pushed any more, exactly one
\* execution of the matching Join has issued jump(next), whatever the number of
\* non-empty branches, zero included.
C39_OneTokenLeavesJoin ==
    (started # {} /\ HasJoin /\ ForkIndex >= 0)
        => /\ hist.join_jumps <= hist.exec[ForkIndex]
           /\ (hist.failed = 0 /\ hist.exec[ForkIndex] = 1 /\ LiveTasks = <<>>)
                 => hist.join_jumps = 1

\* C7: when execute has returned an error or timed out, the worker's next step
\* pushes nothing (the queue, with the tasks of the sibling tokens, is unchanged),
\* drops the buffered follow-up tasks, and is back at pop.
C7_FailedTokenDropped ==
    [][\A w \in Workers :
          (wrk[w].pc = "ret" /\ wrk[w].outcome \in {"err", "timeout"} /\ wrk'[w] # wrk[w])
              => /\ queue' = queue
                 /\ wrk'[w].pc = "pop"
                 /\ wrk'[w].pending = <<>>]_allVars

\* A node failed after buffering a jump, its follow-up was dropped while a sibling
\* token's task was in the queue.
C7_Witness ==
    /\ hist.failed > 0
    /\ hist.dropped > 0
    /\ queue # <<>>

\* C8: a worker leaves run_worker only when the queue is closed; no operation of
\* either queue closes it, so no worker ever leaves.
C8_WorkerKeepsPolling == \A w \in Workers : wrk[w].pc # "stopped"

\* The tasks that are in the queue or that a worker is executing.
QueuedOrExecuting ==
    queue \o ConcatAll([w \in Workers |-> IF w \in ExecutingWorkers THEN wrk[w].task ELSE <<>>])

\* C11: every task that is queued or being executed references an instance that
\* start_workflow has initialised in the state store and a node_index that is a
\* position of the blueprint registered under its workflow ID.
C11_LiveTasksValid ==
    \A i \in 1..Len(QueuedOrExecuting) :
        LET task == QueuedOrExecuting[i]
        IN /\ task.instance_id \in started
           /\ Has(blueprints, task.workflow_id)
           /\ task.node_index \in 0..(Len(blueprints[task.workflow_id].nodes) - 1)

\* The runtime node a worker's task designates.
NodeOf(w) == Nodes(wrk[w].task[1].workflow_id)[wrk[w].task[1].node_index + 1]

\* C12: when an execution returns, every follow-up task it buffered carries the
\* instance ID, workflow ID and flow ID of the executed task; the follow-up of a
\* jump keeps the task's token ID; the follow-ups of a fork carry token IDs that
\* were never issued before and differ from one another.
C12_FollowUpsInherit ==
    [][\A w \in Workers :
          (wrk[w].pc \in {"exec", "join"} /\ wrk'[w].pc = "ret")
              => LET task == wrk[w].task[1]
                     out == wrk'[w].pending
                 IN /\ \A i \in 1..Len(out) :
                          /\ out[i].instance_id = task.instance_id
                          /\ out[i].workflow_id = task.workflow_id
                          /\ out[i].flow_id = task.flow_id
                    /\ NodeOf(w).node # "ForkNode"
                          => \A i \in 1..Len(out) : out[i].token_id = task.token_id
                    /\ NodeOf(w).node = "ForkNode"
                          => /\ \A i \in 1..Len(out) :
                                   /\ out[i].token_id >= nextUuid
                                   /\ out[i].token_id < nextUuid'
                             /\ \A i, j \in 1..Len(out) :
                                   i # j => out[i].token_id # out[j].token_id]_allVars

\* A Fork has returned with MaxBranches follow-ups buffered.
C12_Witness ==
    \E w \in Workers :
        /\ wrk[w].pc = "ret"
        /\ NodeOf(w).node = "ForkNode"
        /\ Len(wrk[w].pending) = MaxBranches

\* Worker w is executing, or has just executed, an End or an arrival at a Join
\* that is not the last one.
EndsOrWaits(w) ==
    \/ wrk[w].pc \in {"exec", "ret"} /\ NodeOf(w).node = "EndNode"
    \/ wrk[w].pc \in {"join", "ret"} /\ NodeOf(w).node = "JoinNode" /\ ~wrk[w].proceed

\* C13: the execution of an End (terminate) or of a non-final arrival at a Join
\* (wait) buffers no follow-up task, and from that execution until the worker is
\* back at pop nothing is pushed and no other worker's task or buffered follow-ups
\* change: the queued and executing tokens of the siblings are left as they were.
C13_TerminateAndWaitTouchNothing ==
    [][\A w \in Workers :
          (wrk[w].pc \in {"exec", "join", "ret"} /\ EndsOrWaits(w) /\ wrk'[w] # wrk[w])
              => /\ wrk'[w].pending = <<>>
                 /\ wrk'[w].pc \in {"ret", "pop"}
                 /\ queue' = queue
                 /\ \A u \in Workers \ {w} : wrk'[u] = wrk[u]]_allVars

\* Two sibling tokens of a Fork have each executed their own End, the second after
\* the first had terminated.
C13_Witness ==
    /\ ~HasJoin
    /\ Cardinality({i \in DOMAIN hist.exec :
                       TheBlueprint.nodes[i + 1].kind = "end" /\ hist.exec[i] = 1}) = 2

\* The targets of the syscalls the node of worker w issues, in order: the targets
\* of a Fork's fork, the next of a jump, none for terminate and wait.
SyscallTargets(w) ==
    LET node == NodeOf(w)
    IN CASE node.node = "ForkNode" -> node.targets
         [] node.node = "EndNode" -> <<>>
         [] node.node = "JoinNode" /\ ~wrk[w].proceed -> <<>>
         [] OTHER -> IF IsSome(node.next) THEN <<node.next[1]>> ELSE <<>>

C15_FifoPerProducer ==
    queue # <<>>
        => \E i \in 1..Len(hist.fifo) :
              /\ hist.fifo[i].task = PopTask(queue)
              /\ \A j \in 1..(i - 1) : hist.fifo[j].by # hist.fifo[i].by

\* The Redis list holds two tasks pushed by one worker and not yet popped.
C15_Witness ==
    /\ backend = "redis"
    /\ \E i, j \in 1..Len(hist.fifo) :
          /\ i < j
          /\ hist.fifo[i].by = hist.fifo[j].by
          /\ hist.fifo[i].by \in Workers
    /\ hist.popped > 0

\* The runtime nodes of the registered blueprint.
TheNodes == Nodes(TheBlueprint.id)

\* The positions from which a token can come to position n of `nodes`: the nodes
\* whose jump targets n and the Forks that have n among their targets.
Preds(nodes, n) ==
    {p \in 0..(Len(nodes) - 1) :
        LET node == nodes[p + 1]
        IN IF node.node = "ForkNode" THEN \E i \in 1..Len(node.targets) : node.targets[i] = n
           ELSE IF node.node = "EndNode" THEN FALSE
           ELSE node.next = Some(n)}

\* The executions of `node`, at position p, that have returned.
Returned(node, p) == IF node.node = "JoinNode" THEN hist.join_done ELSE hist.exec[p]

C17_OneOutputWritePerEnd == hist.output_writes = hist.end_execs

\* C17 (amended): a token's execution of an End writes _WORKFLOW_OUTPUT at most
\* once: exactly once, with the value of the End's output variable, when that
\* variable's name is not empty and the variable holds a value in the store, and
\* not at all otherwise (the store is then left as it was).
C17_OutputWrittenWhenConfigured ==
    [][\A w \in Workers :
          (wrk[w].pc = "exec" /\ NodeOf(w).node = "EndNode" /\ wrk'[w].pc = "ret")
              => LET inst == wrk[w].task[1].instance_id
                     output_var == NodeOf(w).output_var
                 IN IF output_var # "" /\ IsSome(get_var(vars, inst, output_var))
                    THEN /\ hist'.output_writes = hist.output_writes + 1
                         /\ get_var(vars', inst, "_WORKFLOW_OUTPUT")
                               = get_var(vars, inst, output_var)
                    ELSE /\ hist'.output_writes = hist.output_writes
                         /\ vars' = vars]_allVars

\* Two tokens have each executed an End: the one whose End names a variable that
\* is set has written _WORKFLOW_OUTPUT, the one whose End names none has not.
C17_Witness ==
    /\ hist.end_execs = 2
    /\ hist.output_writes = 1
    /\ \E inst \in started : IsSome(get_var(vars, inst, "_WORKFLOW_OUTPUT"))

\* C25: with no failed node, the engine on the bounded in-memory queue is never
\* in a state where the queue is full and every running worker stands in the
\* flush loop waiting in push (a state no step leaves).
C25_FlushNeverBlocksForever ==
    ~(/\ backend = "mem"
      /\ hist.failed = 0
      /\ ~CanPush(queue)
      /\ \E w \in Workers : wrk[w].pc # "off"
      /\ \A w \in Workers : wrk[w].pc \in {"off", "flush"})

(***************************************************************************)
(* SpecFused: the chain Start -> f1 -> f2 -> End, run node by node on one  *)
(* store and, fused by the optimizer, as one node on another store.        *)
(***************************************************************************)
\* Optimizer::optimize, step 3: the positions of the kept nodes, the head of the
\* chain standing for the fused node, the merged nodes having none.
RECURSIVE OldToNew(_, _, _, _)
OldToNew(i, n_count, merged, acc) ==
    IF i >= n_count THEN acc
    ELSE IF i \in merged THEN OldToNew(i + 1, n_count, merged, acc)
    ELSE OldToNew(i + 1, n_count, merged, Put(acc, i, Cardinality(DOMAIN acc)))

\* The closure with every index kept as it is.
remap_val_Keeps(val, map) == val

\* remap_node_targets, the closure remap_val: an index the map knows is replaced.
remap_val(val, map) ==
    IF val.t = "num" /\ Has(map, val.v) THEN JNum(map[val.v]) ELSE val

\* Optimizer::optimize, the fused node built for `chain` (old positions, in
\* order), its "next" remapped as step 4 does.
FusedBlueprintNode(nodes, chain, map) ==
    LET tail_node == nodes[chain[Len(chain)] + 1]
        ops == [i \in 1..Len(chain) |->
                   JObj([kind |-> JStr(nodes[chain[i] + 1].kind),
                         params |-> JObj(nodes[chain[i] + 1].params)])]
        next_val == IF Has(tail_node.params, "next") THEN tail_node.params["next"] ELSE JNull
    IN BlueprintNode("fused", [ops |-> JArr(ops), next |-> remap_val(next_val, map)])

\* FusedNodeDefinition::prepare: one FunctionOp per op, "log" and "assign" only.
FusedNodeDefinition_prepare(params) ==
    LET ops_json == AsArray(JGet(params, "ops"))
        op(op_def) ==
            LET kind == AsStr(JValGet(op_def, "kind"))
                p == JValGet(op_def, "params")
                op_params == IF IsSome(p) THEN p[1] ELSE JNull
            IN [ok |-> IsSome(kind) /\ kind[1] \in {"log", "assign"},
                handler |-> IF IsSome(kind) THEN kind[1] ELSE "",
                params |-> op_params,
                output |-> AsStr(JValGet(op_params, "output"))]
    IN IF ~IsSome(ops_json) THEN Err("FusedNode missing 'ops' param")
       ELSE LET ops == [i \in 1..Len(ops_json[1]) |-> op(ops_json[1][i])]
            IN IF \E i \in 1..Len(ops) : ~ops[i].ok
               THEN Err("Unsupported fused op kind")
               ELSE Ok([node |-> "FusedNode", ops |-> ops,
                        next_index |-> AsU64(JGet(params, "next"))])

\* The keys of a parameter object in the order serde_json iterates them.
ParamKeyOrder == <<"assignments", "msg", "next", "output", "value">>

\* The state-store reads of ActionNode::execute, step 1: one get_var per
\* placeholder parameter.
ResolveReads(params) ==
    ConcatAll([i \in 1..Len(ParamKeyOrder) |->
        LET k == ParamKeyOrder[i]
        IN IF Has(params, k) /\ params[k].t = "str" /\ IsPlaceholder(params[k].v)
           THEN <<<<"get", PlaceholderName(params[k].v)>>>>
           ELSE <<>>])

\* The set_var calls of the handler, then the write of the output.
WriteOps(handler, params, output, result) ==
    LET list == AsArray(JGet(params, "assignments"))
        fromList == IF handler = "assign" /\ IsSome(list)
                    THEN ConcatAll([i \in 1..Len(list[1]) |->
                            LET k == AsStr(JValGet(list[1][i], "key"))
                                val == JValGet(list[1][i], "value")
                            IN IF IsSome(k) /\ IsSome(val) THEN <<<<"set", k[1], val[1]>>>>
                                                           ELSE <<>>])
                    ELSE <<>>
    IN fromList \o (IF IsSome(output) THEN <<<<"set", output[1], result>>>> ELSE <<>>)

\* FunctionOp::execute_op: the handler gets self.params as they are.
FunctionOp_execute_op(op, v, instance_id) ==
    LET r == handler_execute(op.handler, op.params.v, v, instance_id)
    IN [vars |-> IF IsSome(op.output)
                 THEN set_var(r.vars, instance_id, op.output[1], r.result)
                 ELSE r.vars,
        ops |-> WriteOps(op.handler, op.params.v, op.output, r.result)]

\* FusedNode::execute: the ops in order, then jump(next_index).
RECURSIVE FusedOps(_, _, _, _)
FusedOps(ops, v, instance_id, trace) ==
    IF ops = <<>> THEN [vars |-> v, trace |-> trace]
    ELSE LET r == FunctionOp_execute_op(Head(ops), v, instance_id)
         IN FusedOps(Tail(ops), r.vars, instance_id, trace \o r.ops)

FusedInstance == "c_instance"

\* The chain's function nodes: assign or log, the value a literal or a placeholder.
ChainFunction(id, name, value, output) ==
    NFunction(id, name, [value |-> JStr(value)], output)

ChainWf(f1, f2) ==
    Workflow("c_wf", <<NStart("c_start"), f1, f2, NEnd("c_end", "")>>,
             <<Edge("c_start", f1.id), Edge(f1.id, f2.id), Edge(f2.id, "c_end")>>)

ChainFunctions(id) ==
    {ChainFunction(id, name, value, output) :
        name \in {"assign", "log"}, value \in {"lit", "${x}", "${y}"},
        output \in {None, Some("x"), Some("y")}}

\* A run of the chain: the store, the state-store operations so far, the position
\* of the token in its blueprint, and whether the chain has been left.
NewRun(v, nodes) == [vars |-> v, trace |-> <<>>, nodes |-> nodes, at |-> 1, done |-> FALSE]

InitFused ==
    /\ backend = "mem"
    /\ \E f1 \in ChainFunctions("c_f1"), f2 \in ChainFunctions("c_f2"),
          v \in {init_instance(EmptyMap, FusedInstance, EmptyMap),
                 init_instance(EmptyMap, FusedInstance, [x |-> JNum(7)])} :
          LET bp == compile(EmptyMap, ChainWf(f1, f2)).result.v
              chain == <<1, 2>>
              map == OldToNew(0, Len(bp.nodes), {2}, EmptyMap)
              fused == <<bp.nodes[1], FusedBlueprintNode(bp.nodes, chain, map), bp.nodes[4]>>
          IN fz = [u |-> NewRun(v, bp.nodes), f |-> NewRun(v, fused)]
    /\ StoreUnused /\ EngineUnused /\ CompileUnused /\ LaterUnused

\* The original chain: the token's task executes one ActionNode and jumps.
UnfusedStep ==
    /\ ~fz.u.done
    /\ LET bp_node == fz.u.nodes[fz.u.at + 1]
           node == prepare(bp_node).v
           task == Task(FusedInstance, "c_wf", 0, fz.u.at, 0)
           r == CHOOSE x \in ActionNode_execute(node, task, fz.u.vars, 0) : TRUE
           resolved == ResolveParams(node.params, fz.u.vars, FusedInstance)
           result == handler_execute(node.handler, resolved, fz.u.vars, FusedInstance).result
       IN fz' = [fz EXCEPT !.u.vars = r.vars,
                           !.u.trace = @ \o ResolveReads(node.params)
                                         \o WriteOps(node.handler, resolved, node.output, result),
                           !.u.at = IF r.pending = <<>> THEN fz.u.at ELSE r.pending[1].node_index,
                           !.u.done = \/ r.pending = <<>>
                                      \/ fz.u.nodes[r.pending[1].node_index + 1].kind
                                            \notin {"assign", "log"}]
    /\ UNCHANGED <<backend, storeVars, engineVars, compVars, laterVars>>

\* The optimized blueprint: the token's task executes the fused node and jumps.
FusedStep ==
    /\ ~fz.f.done
    /\ LET node == FusedNodeDefinition_prepare(fz.f.nodes[fz.f.at + 1].params).v
           r == FusedOps(node.ops, fz.f.vars, FusedInstance, <<>>)
       IN fz' = [fz EXCEPT !.f.vars = r.vars,
                           !.f.trace = @ \o r.trace,
                           !.f.at = IF IsSome(node.next_index) THEN node.next_index[1] ELSE @,
                           !.f.done = TRUE]
    /\ UNCHANGED <<backend, storeVars, engineVars, compVars, laterVars>>

NextFused == UnfusedStep \/ FusedStep

SpecFused == InitFused /\ [][NextFused]_allVars

\* C5: once both runs have left the chain, they have performed the same sequence
\* of state-store reads and writes, the stores hold the same variables, and both
\* tokens stand at the same node (the chain's successor), whatever the parameter
\* values, ${name} placeholders included.
C5_FusionPreservesBehavior ==
    (fz.u.done /\ fz.f.done)
        => /\ fz.u.trace = fz.f.trace
           /\ fz.u.vars = fz.f.vars
           /\ fz.u.nodes[fz.u.at + 1] = fz.f.nodes[fz.f.at + 1]

(***************************************************************************)
(* SpecPrepare: concurrent calls of register_blueprint, prepare_blueprint  *)
(* and start_workflow on one blueprint id, with the executable cache.      *)
(***************************************************************************)
EngineCallers == 1..MaxEngineCalls

PreparedId == "a_wf"

\* Blueprints handed to register_blueprint under one id: two compiled workflows,
\* one whose second node names a kind nobody registered, and one whose second
\* node is a join without expect_count (JoinDefinition::prepare fails).
GoodBlueprints ==
    {compile(EmptyMap, SeqWf("a_", EmptyMap, TRUE, "y")).result.v,
     compile(EmptyMap, ForkEndWf("a_")).result.v}

BadBlueprints ==
    LET bp == compile(EmptyMap, SeqWf("a_", EmptyMap, TRUE, "y")).result.v
    IN {[bp EXCEPT !.nodes[2].kind = "unregistered"],
        [bp EXCEPT !.nodes[2] = BlueprintNode("join", [next |-> JNum(2)])]}

PrepareBlueprints == GoodBlueprints \cup BadBlueprints

\* Some node of the blueprint has no registered definition, or its prepare fails.
Unpreparable(bp) ==
    \E i \in 1..Len(bp.nodes) :
        bp.nodes[i].kind \notin node_registry \/ ~prepare(bp.nodes[i]).ok

\* start_workflow's initial_vars.
InitialVars == [seed |-> JNum(1)]

\* A caller that has made no call. `raced` (ghost): a register_blueprint call
\* inserted, or stood between its insert and its remove, while this call ran.
IdleEngineCall == [op |-> "none", pc |-> "idle", arg |-> <<>>, nodes |-> <<>>,
                   ret |-> "none", inst |-> 0, raced |-> FALSE]

InFlight(call) == call.pc \notin {"idle", "done"}

HoldsBlueprintRef_Dropped(call) == FALSE

\* The caller holds a dashmap Ref into Engine.blueprints, that is the read lock of
\* the id's shard: prepare_blueprint's `blueprint` from the get to the return,
\* start_workflow's `blueprint_meta` from the get to the return.
HoldsBlueprintRef(call) == call.pc \in {"built", "push"}

\* A caller enters register_blueprint(bp), prepare_blueprint(id) (as run_worker
\* calls it) or start_workflow(id, initial_vars).
EngineCall(c) ==
    /\ eng[c].pc = "idle"
    /\ \E op \in {"register", "prepare", "start"} :
       \E arg \in IF op = "register" THEN {<<bp>> : bp \in PrepareBlueprints} ELSE {<<>>} :
          eng' = [eng EXCEPT ![c] =
                    [IdleEngineCall EXCEPT
                        !.op = op, !.arg = arg,
                        !.pc = IF op = "register" THEN "insert" ELSE "lookup",
                        !.raced = \E d \in EngineCallers : eng[d].pc = "remove"]]
    /\ UNCHANGED <<backend, storeVars, engineVars, compVars, fusedVars, executable_cache, optVars, iterVars, pairVars, lastVars>>

\* register_blueprint: self.blueprints.insert(id, blueprint), which takes the write
\* lock of the shard and so waits for every Ref into it.
RegisterInsert(c) ==
    /\ eng[c].pc = "insert"
    /\ \A d \in EngineCallers : ~HoldsBlueprintRef(eng[d])
    /\ blueprints' = register_blueprint(blueprints, eng[c].arg[1])
    /\ eng' = [d \in EngineCallers |->
                 IF d = c THEN [eng[c] EXCEPT !.pc = "remove"]
                 ELSE IF InFlight(eng[d]) THEN [eng[d] EXCEPT !.raced = TRUE]
                 ELSE eng[d]]
    /\ UNCHANGED <<backend, storeVars, vars, pending_joins, queue, capacity, wrk, started,
                   nextUuid, hist, compVars, fusedVars, executable_cache, optVars, iterVars, pairVars, lastVars>>

\* register_blueprint: self.executable_cache.remove(&id)
RegisterRemove(c) ==
    /\ eng[c].pc = "remove"
    /\ executable_cache' = IF Has(executable_cache, PreparedId)
                           THEN Del(executable_cache, PreparedId) ELSE executable_cache
    /\ eng' = [eng EXCEPT ![c].pc = "done", ![c].ret = "ok"]
    /\ UNCHANGED <<backend, storeVars, engineVars, compVars, fusedVars, optVars, iterVars, pairVars, lastVars>>

\* Where a caller goes once prepare_blueprint has returned Ok(nodes).
AfterPrepare(call, nodes) ==
    IF call.op = "start" THEN [call EXCEPT !.pc = "meta", !.nodes = nodes]
    ELSE [call EXCEPT !.pc = "done", !.ret = "ok", !.nodes = nodes]

\* prepare_blueprint: the lookup in executable_cache.
PrepareLookup(c) ==
    /\ eng[c].pc = "lookup"
    /\ eng' = [eng EXCEPT ![c] =
                 IF Has(executable_cache, PreparedId)
                 THEN AfterPrepare(@, executable_cache[PreparedId])
                 ELSE [@ EXCEPT !.pc = "get"]]
    /\ UNCHANGED <<backend, storeVars, engineVars, compVars, fusedVars, executable_cache, optVars, iterVars, pairVars, lastVars>>

\* prepare_blueprint: self.blueprints.get(id) and the loop preparing the nodes;
\* an error returns at once (and drops the Ref).
PrepareGet(c) ==
    /\ eng[c].pc = "get"
    /\ LET r == prepare_blueprint(blueprints, PreparedId)
       IN eng' = [eng EXCEPT ![c] =
                    IF r.ok THEN [@ EXCEPT !.pc = "built", !.nodes = r.v]
                    ELSE [@ EXCEPT !.pc = "done", !.ret = "err"]]
    /\ UNCHANGED <<backend, storeVars, engineVars, compVars, fusedVars, executable_cache, optVars, iterVars, pairVars, lastVars>>

\* prepare_blueprint: self.executable_cache.insert(id, nodes) and the return.
PrepareInsert(c) ==
    /\ eng[c].pc = "built"
    /\ executable_cache' = Put(executable_cache, PreparedId, eng[c].nodes)
    /\ eng' = [eng EXCEPT ![c] = AfterPrepare(@, @.nodes)]
    /\ UNCHANGED <<backend, storeVars, engineVars, compVars, fusedVars, optVars, iterVars, pairVars, lastVars>>

\* start_workflow: blueprint_meta = self.blueprints.get(id).unwrap(), the new
\* instance id and init_instance.
StartInit(c) ==
    /\ eng[c].pc = "meta"
    /\ vars' = init_instance(vars, nextUuid, InitialVars)
    /\ started' = started \cup {nextUuid}
    /\ nextUuid' = nextUuid + 3
    /\ eng' = [eng EXCEPT ![c].pc = "push", ![c].inst = nextUuid]
    /\ UNCHANGED <<backend, storeVars, pending_joins, blueprints, queue, capacity, wrk,
                   hist, compVars, fusedVars, executable_cache, optVars, iterVars, pairVars, lastVars>>

\* start_workflow: the push of the initial task and the return.
StartPush(c) ==
    /\ eng[c].pc = "push"
    /\ CanPush(queue)
    /\ queue' = Pushed(queue, Task(eng[c].inst, PreparedId, eng[c].inst + 1,
                                   blueprints[PreparedId].start_index, eng[c].inst + 2))
    /\ eng' = [eng EXCEPT ![c].pc = "done", ![c].ret = "ok"]
    /\ UNCHANGED <<backend, storeVars, vars, pending_joins, blueprints, capacity, wrk,
                   started, nextUuid, hist, compVars, fusedVars, executable_cache, optVars, iterVars, pairVars, lastVars>>

InitPrepare ==
    /\ backend \in Backends
    /\ capacity = IF backend = "mem" THEN MaxCapacity ELSE 0
    /\ blueprints \in {EmptyMap} \cup {register_blueprint(EmptyMap, bp) : bp \in PrepareBlueprints}
    /\ executable_cache = EmptyMap
    /\ eng = [c \in EngineCallers |-> IdleEngineCall]
    /\ vars = EmptyMap /\ queue = <<>> /\ started = {} /\ nextUuid = 1
    /\ pending_joins = EmptyMap /\ wrk = EmptyMap /\ hist = EmptyMap
    /\ StoreUnused /\ CompileUnused /\ FusedUnused
    /\ OptimizeUnused /\ IterationUnused /\ BackendsUnused /\ LastUnused

NextPrepare ==
    \E c \in EngineCallers :
        \/ EngineCall(c)
        \/ RegisterInsert(c)
        \/ RegisterRemove(c)
        \/ PrepareLookup(c)
        \/ PrepareGet(c)
        \/ PrepareInsert(c)
        \/ StartInit(c)
        \/ StartPush(c)

SpecPrepare == InitPrepare /\ [][NextPrepare]_allVars

SyncKinds == {"log", "assign", "fib"}

is_sync(node) == node.kind \in SyncKinds

\* Step 1: adj[u], the targets of node u that are positions of the blueprint.
Adjacency(nodes) ==
    [u \in 0..(Len(nodes) - 1) |->
        SelectSeq(extract_targets(nodes[u + 1]), LAMBDA v : v < Len(nodes))]

\* Step 1: in_degree[v], the number of entries v in all of adj.
InDegree(nodes) ==
    LET adj == Adjacency(nodes)
        all == ConcatAll([u \in 1..Len(nodes) |-> adj[u - 1]])
    IN [v \in 0..(Len(nodes) - 1) |-> Len(SelectSeq(all, LAMBDA x : x = v))]

\* remap_node_targets: the known fields of the node's params go through remap_val.
remap_node_targets(node, map) ==
    LET field(k, val) ==
            IF k \in {"next", "join_target", "else_next", "body"} THEN remap_val(val, map)
            ELSE IF k = "targets" /\ val.t = "arr"
                 THEN JArr([i \in 1..Len(val.v) |-> remap_val(val.v[i], map)])
            ELSE IF k = "branches" /\ val.t = "arr"
                 THEN JArr([i \in 1..Len(val.v) |->
                         LET b == val.v[i]
                         IN IF b.t = "obj" /\ Has(b.v, "target")
                            THEN JObj([b.v EXCEPT !["target"] = remap_val(@, map)])
                            ELSE b])
            ELSE val
    IN [node EXCEPT !.params = [k \in DOMAIN node.params |-> field(k, node.params[k])]]

\* Steps 3 and 4: the new node list. A merged node is skipped, the head of a
\* chain becomes the fused node, every other node is kept; then the targets are
\* remapped.
RECURSIVE NewNodes(_, _, _, _, _)
NewNodes(i, nodes, merged, chains, map) ==
    IF i >= Len(nodes) THEN <<>>
    ELSE IF i \in merged THEN NewNodes(i + 1, nodes, merged, chains, map)
    ELSE <<IF Has(chains, i) THEN FusedBlueprintNode(nodes, chains[i], map)
           ELSE remap_node_targets(nodes[i + 1], map)>>
         \o NewNodes(i + 1, nodes, merged, chains, map)

\* Steps 3 and 4 and the returned blueprint.
Optimized(blueprint, merged, chains) ==
    LET map == OldToNew(0, Len(blueprint.nodes), merged, EmptyMap)
    IN [id |-> blueprint.id, name |-> blueprint.name,
        nodes |-> NewNodes(0, blueprint.nodes, merged, chains, map),
        start_index |-> IF Has(map, blueprint.start_index) THEN map[blueprint.start_index]
                        ELSE blueprint.start_index]

\* Start -> fs[1] -> ... -> fs[k] -> End, declared in that order.
OptChainWf(fs) ==
    LET k == Len(fs)
        id(j) == IF j = 0 THEN "o_start" ELSE IF j = k + 1 THEN "o_end" ELSE fs[j].id
    IN Workflow("o_wf",
                <<NStart("o_start")>> \o fs \o <<NEnd("o_end", "")>>,
                [j \in 1..(k + 1) |-> Edge(id(j - 1), id(j))])

\* A function node of the chain: a Sync action or the Async http, and on the
\* first node possibly a user parameter named like a control-flow field.
OptFunction(j, name, params) == NFunction("o_f" \o IdNum(j), name, params, None)

OptChains ==
    UNION {{[j \in 1..k |-> OptFunction(j, names[j], IF j = 1 THEN p ELSE EmptyMap)] :
               names \in [1..k -> {"log", "assign", "fib", "http"}],
               p \in {EmptyMap, [msg |-> JStr("hi")], [body |-> JNum(1)],
                      [body |-> JNum(MaxOps + 1)]}} :
           k \in 1..MaxOps}

\* The chain Start -> f1 -> ... -> fk -> End with its function nodes declared in
\* the order order[1], ..., order[k].
OptShuffledWf(fs, order) ==
    LET wf == OptChainWf(fs)
    IN [wf EXCEPT !.nodes = <<NStart("o_start")>> \o [j \in 1..Len(fs) |-> fs[order[j]]]
                               \o <<NEnd("o_end", "")>>]

Orders(k) == {order \in [1..k -> 1..k] : \A a, b \in 1..k : order[a] = order[b] => a = b}

OptShuffled ==
    UNION {{OptShuffledWf([j \in 1..k |-> OptFunction(j, names[j], EmptyMap)], order) :
               names \in [1..k -> {"log", "http"}], order \in Orders(k)} :
           k \in 2..MaxOps}

\* Start -> If; the conditioned edge leads to o_a1 -> o_a2 -> End, the else edge
\* to o_b1 -> End; the branch nodes are declared before the If node or after it.
OptIfWf(if_first) ==
    LET branch == <<NFunction("o_a1", "log", EmptyMap, None),
                    NFunction("o_a2", "assign", [value |-> JNum(1)], Some("r")),
                    NFunction("o_b1", "log", EmptyMap, None)>>
        if == <<NIf("o_if", <<>>)>>
    IN Workflow("o_wf",
                <<NStart("o_start")>> \o (IF if_first THEN if \o branch ELSE branch \o if)
                   \o <<NEnd("o_end", "")>>,
                <<Edge("o_start", "o_if"), EdgeCond("o_if", "o_a1", "x > 10"),
                  EdgeTyped("o_if", "o_b1", "else"), Edge("o_a1", "o_a2"),
                  Edge("o_a2", "o_end"), Edge("o_b1", "o_end")>>)

\* Start -> End next to two log nodes o_c1 -> o_c2 with o_c2's edge as `back`
\* says: to o_c1 (a cycle), to itself, or to End; Start's edge goes to `first`.
OptCycleWf(first, back) ==
    Workflow("o_wf",
             <<NStart("o_start"), NFunction("o_c1", "log", EmptyMap, None),
               NFunction("o_c2", "log", EmptyMap, None), NEnd("o_end", "")>>,
             <<Edge("o_start", first), Edge("o_c1", "o_c2"), Edge("o_c2", back)>>)

OptimizeInputs ==
    {compile(EmptyMap, OptChainWf(fs)).result.v : fs \in OptChains}
    \cup {compile(EmptyMap, OptCycleWf(first, back)).result.v :
             first \in {"o_end", "o_c1"}, back \in {"o_c1", "o_c2", "o_end"}}
    \cup {compile(EmptyMap, wf).result.v : wf \in OptShuffled}
    \cup {compile(EmptyMap, OptIfWf(if_first)).result.v : if_first \in BOOLEAN}
    \cup {compile(EmptyMap, ParallelWf("o_", lens, "plain")).result.v : lens \in BranchLens}

\* current_chain is recorded up to this length, which no chain without a repeated
\* node reaches; the entries a longer run of the loop would push are left out.
LoopCap == MaxOps + 3

\* optimize(blueprint, lookup_mode) is entered: steps 1 and the empty chains, merged.
InitOptimize ==
    /\ backend = "mem"
    /\ \E bp \in OptimizeInputs :
          opt = [blueprint |-> bp, phase |-> "scan", i |-> 0, curr |-> 0,
                 current_chain |-> <<>>, merged |-> {}, chains |-> EmptyMap,
                 result |-> None]
    /\ StoreUnused /\ EngineUnused /\ CompileUnused /\ FusedUnused
    /\ PrepareUnused /\ IterationUnused /\ BackendsUnused /\ LastUnused

\* Step 2, one pass of `for i in 0..n_count` up to the inner loop.
ScanHead ==
    /\ opt.phase = "scan"
    /\ opt.i < Len(opt.blueprint.nodes)
    /\ opt' = IF opt.i \in opt.merged \/ ~is_sync(opt.blueprint.nodes[opt.i + 1])
              THEN [opt EXCEPT !.i = @ + 1]
              ELSE [opt EXCEPT !.phase = "loop", !.curr = opt.i,
                               !.current_chain = <<opt.i>>]
    /\ UNCHANGED <<backend, storeVars, engineVars, compVars, fusedVars, prepVars,
                   iterVars, pairVars, lastVars>>

\* Whether the inner loop fuses the successor of curr (else it breaks).
Fuses(nodes, curr) ==
    LET adj == Adjacency(nodes)
    IN /\ Len(adj[curr]) = 1
       /\ adj[curr][1] # curr
       /\ InDegree(nodes)[adj[curr][1]] = 1
       /\ is_sync(nodes[adj[curr][1] + 1])

\* Step 2, one iteration of the inner `loop`, and on break the rest of the pass.
ChainLoop ==
    /\ opt.phase = "loop"
    /\ LET nodes == opt.blueprint.nodes
           next == Adjacency(nodes)[opt.curr][1]
       IN opt' = IF Fuses(nodes, opt.curr)
                 THEN [opt EXCEPT !.current_chain = IF Len(@) < LoopCap THEN Append(@, next)
                                                      ELSE @,
                                  !.merged = @ \cup {next},
                                  !.curr = next]
                 ELSE [opt EXCEPT !.phase = "scan", !.i = @ + 1, !.current_chain = <<>>,
                                  !.chains = IF Len(opt.current_chain) > 1
                                             THEN Put(@, opt.i, opt.current_chain) ELSE @]
    /\ UNCHANGED <<backend, storeVars, engineVars, compVars, fusedVars, prepVars,
                   iterVars, pairVars, lastVars>>

\* Steps 3 and 4 and the return.
Construct ==
    /\ opt.phase = "scan"
    /\ opt.i = Len(opt.blueprint.nodes)
    /\ opt' = [opt EXCEPT !.phase = "done",
                          !.result = Some(Optimized(opt.blueprint, opt.merged, opt.chains))]
    /\ UNCHANGED <<backend, storeVars, engineVars, compVars, fusedVars, prepVars,
                   iterVars, pairVars, lastVars>>

NextOptimize == ScanHead \/ ChainLoop \/ Construct

SpecOptimize == InitOptimize /\ [][NextOptimize]_allVars

\* The call runs on its own thread: a step that can be taken is taken.
FairOptimize == SpecOptimize /\ WF_allVars(NextOptimize)

(***************************************************************************)
(* Claims on the optimizer (SpecOptimize, FairOptimize).                   *)
(***************************************************************************)
\* The blueprint is Start -> k Sync function nodes -> End with k >= 2, in this
\* order, each node's "next" being the following position.
IsSyncChain(bp) ==
    LET n == Len(bp.nodes)
    IN /\ n >= 4
       /\ bp.nodes[1].kind = "start" /\ bp.nodes[n].kind = "end"
       /\ \A j \in 2..(n - 1) : is_sync(bp.nodes[j])
       /\ \A j \in 1..(n - 1) : AsU64(JGet(bp.nodes[j].params, "next")) = Some(j)

\* C23: optimizing Start -> k consecutive Sync function nodes -> End (k >= 2)
\* returns exactly three nodes: Start, one node of kind "fused" whose ops are the
\* k nodes in chain order, and End; Start's next is the fused node and the fused
\* node's next is End.
C23_ChainFusedIntoOne ==
    (opt.phase = "done" /\ IsSyncChain(opt.blueprint))
        => LET old == opt.blueprint.nodes
               new == opt.result[1].nodes
           IN /\ Len(new) = 3
              /\ new[1].kind = "start" /\ new[2].kind = "fused" /\ new[3].kind = "end"
              /\ JGet(new[2].params, "ops") =
                    Some(JArr([j \in 1..(Len(old) - 2) |->
                                  JObj([kind |-> JStr(old[j + 1].kind),
                                        params |-> JObj(old[j + 1].params)])]))
              /\ AsU64(JGet(new[1].params, "next")) = Some(1)
              /\ AsU64(JGet(new[2].params, "next")) = Some(2)

\* C28: every call of optimize returns.
C28_OptimizeTerminates == <>(opt.phase = "done")

\* The indices the compiler resolves into the params of a node of each kind.
ControlTargets(node) ==
    LET p == node.params
        ts == AsArray(JGet(p, "targets"))
        bs == AsArray(JGet(p, "branches"))
    IN CASE node.kind = "if" ->
              (IF IsSome(bs)
               THEN ConcatAll([i \in 1..Len(bs[1]) |-> AsU64(JValGet(bs[1][i], "target"))])
               ELSE <<>>) \o AsU64(JGet(p, "else_next"))
         [] node.kind = "fork" ->
              (IF IsSome(ts) THEN ConcatAll([i \in 1..Len(ts[1]) |-> AsU64(Some(ts[1][i]))])
               ELSE <<>>) \o AsU64(JGet(p, "join_target"))
         [] node.kind \in {"iteration", "loop"} ->
              AsU64(JGet(p, "next")) \o AsU64(JGet(p, "body"))
         [] node.kind = "end" -> <<>>
         [] OTHER -> AsU64(JGet(p, "next"))

\* The edge a -> b (positions from 0) of the blueprint is fusible: a has exactly
\* one outgoing target, b, b has exactly one incoming edge, both are Sync, a # b.
FusibleEdge(nodes, a, b) ==
    LET out(u) == SelectSeq(ControlTargets(nodes[u + 1]), LAMBDA v : v < Len(nodes))
        incoming == ConcatAll([u \in 1..Len(nodes) |->
                                  SelectSeq(out(u - 1), LAMBDA v : v = b)])
    IN /\ out(a) = <<b>> /\ Len(incoming) = 1
       /\ is_sync(nodes[a + 1]) /\ is_sync(nodes[b + 1]) /\ a # b

\* The positions of the input whose node heads an output node, in order.
OptKept == SelectSeq([i \in 1..Len(opt.blueprint.nodes) |-> i - 1],
                     LAMBDA i : i \notin opt.merged)

\* The input positions the output node made for position i (not merged) stands
\* for: the chain it heads, or itself.
OptMembers(i) == IF Has(opt.chains, i) THEN opt.chains[i] ELSE <<i>>

\* The output node p (from 1) is what its members say: a fused node whose ops are
\* the members' kind and params in order, or a node of the member's kind.
OptNodeHolds(p) ==
    LET old == opt.blueprint.nodes
        new == opt.result[1].nodes[p]
        ms == OptMembers(OptKept[p])
    IN IF Len(ms) > 1
       THEN /\ new.kind = "fused"
            /\ JGet(new.params, "ops") =
                  Some(JArr([j \in 1..Len(ms) |->
                                JObj([kind |-> JStr(old[ms[j] + 1].kind),
                                      params |-> JObj(old[ms[j] + 1].params)])]))
       ELSE new.kind = old[ms[1] + 1].kind

\* C32: in the optimizer's output, consecutive ops of a fused node were a fusible
\* edge of the input, every input node appears exactly once (as itself or as one
\* op of one fused node), and no fusible edge of the input joins two distinct
\* output nodes.
C32_FusionIsMaximalPartition ==
    opt.phase = "done" =>
       LET old == opt.blueprint.nodes
           ps == 1..Len(OptKept)
       IN /\ Len(opt.result[1].nodes) = Len(OptKept)
          /\ \A p \in ps : OptNodeHolds(p)
          /\ \A p \in ps : \A j \in 1..(Len(OptMembers(OptKept[p])) - 1) :
                FusibleEdge(old, OptMembers(OptKept[p])[j], OptMembers(OptKept[p])[j + 1])
          /\ \A i \in 0..(Len(old) - 1) :
                Cardinality({<<p, j>> \in ps \X (1..Len(old)) :
                                /\ j <= Len(OptMembers(OptKept[p]))
                                /\ OptMembers(OptKept[p])[j] = i}) = 1
          /\ \A p, q \in ps :
                p # q => LET mp == OptMembers(OptKept[p])
                         IN ~FusibleEdge(old, mp[Len(mp)], OptMembers(OptKept[q])[1])

\* The output position (from 0) of the node that stands for input position v.
OptPos(v) ==
    (CHOOSE p \in 1..Len(OptKept) :
        \E j \in 1..Len(OptMembers(OptKept[p])) : OptMembers(OptKept[p])[j] = v) - 1

\* C33: in the optimizer's output start_index and every control-flow index are
\* positions of the new node vector, each the new position of the node the old
\* index designated (the fused node for a chain head); a fused node's next is
\* the remapped next of its chain's tail.
C33_IndicesRemapped ==
    opt.phase = "done" =>
       LET old == opt.blueprint.nodes
           new == opt.result[1].nodes
       IN /\ opt.result[1].start_index < Len(new)
          /\ opt.result[1].start_index = OptPos(opt.blueprint.start_index)
          /\ \A p \in 1..Len(new) :
                LET ms == OptMembers(OptKept[p])
                    before == ControlTargets(old[ms[Len(ms)] + 1])
                    after == ControlTargets(new[p])
                IN /\ Len(after) = Len(before)
                   /\ \A k \in 1..Len(after) :
                         after[k] < Len(new) /\ after[k] = OptPos(before[k])

\* The If node was declared after the branch nodes o_a1, o_a2, o_b1: the chain
\* o_a1 -> o_a2 became the fused node at position 1, the If node moved from
\* position 4 to 3 with its targets 1 and 3 now 1 and 2, and End is at 4.
C33_Witness ==
    /\ opt.phase = "done"
    /\ Len(opt.blueprint.nodes) = 6 /\ opt.blueprint.nodes[5].kind = "if"
    /\ ControlTargets(opt.blueprint.nodes[5]) = <<1, 3>>
    /\ Len(opt.result[1].nodes) = 5
    /\ opt.result[1].nodes[2].kind = "fused" /\ opt.result[1].nodes[4].kind = "if"
    /\ ControlTargets(opt.result[1].nodes[4]) = <<1, 2>>
    /\ ControlTargets(opt.result[1].nodes[2]) = <<4>>
    /\ ControlTargets(opt.result[1].nodes[1]) = <<3>>

\* The kinds of the function nodes: their params are the author's parameters
\* plus "output" and, for a node with an outgoing edge, the resolved "next".
FunctionKinds == {"log", "assign", "fib", "http"}

\* C34: the optimizer reads as edges only the control-flow fields the compiler
\* resolved, and every function node it keeps has the parameters it had, "next"
\* apart.
C34_DomainParamsUntouched ==
    LET old == opt.blueprint.nodes
    IN /\ \A u \in 0..(Len(old) - 1) :
             Adjacency(old)[u] = SelectSeq(ControlTargets(old[u + 1]), LAMBDA v : v < Len(old))
       /\ opt.phase = "done" =>
             \A p \in 1..Len(OptKept) :
                LET before == old[OptKept[p] + 1]
                    after == opt.result[1].nodes[p]
                IN (Len(OptMembers(OptKept[p])) = 1 /\ before.kind \in FunctionKinds)
                      => \A key \in DOMAIN before.params \ {"next"} :
                            Has(after.params, key) /\ after.params[key] = before.params[key]

(***************************************************************************)
(* SpecBackends: the same sequence of decrement_join_count calls, one      *)
(* after the other, applied to an in-memory store and to a Redis store.    *)
(***************************************************************************)
\* The (instance, node_index) pairs the calls address.
PairKeys == {<<1, 1>>, <<1, 2>>, <<2, 1>>, <<2, 2>>}

InitBackends ==
    /\ backend = "mem"
    /\ \E n \in 1..MaxCount :
          pair = [initial_count |-> n, mem |-> EmptyMap, redis |-> EmptyMap,
                  made |-> 0, last |-> None]
    /\ StoreUnused /\ EngineUnused /\ CompileUnused /\ FusedUnused
    /\ PrepareUnused /\ OptimizeUnused /\ IterationUnused /\ LastUnused

\* decrement_join_count(instance, node_index, initial_count) on both stores.
BothDecrement ==
    /\ pair.made < MaxCalls
    /\ \E key \in PairKeys :
          LET m == MemDecrement(pair.mem, key, pair.initial_count)
              r == RedisScript(pair.redis, key, pair.initial_count)
          IN pair' = [pair EXCEPT !.mem = m[1], !.redis = r[1], !.made = @ + 1,
                                  !.last = Some([key |-> key, mem |-> m[2], redis |-> r[2]])]
    /\ UNCHANGED <<backend, storeVars, engineVars, compVars, fusedVars, prepVars,
                   optVars, iterVars, lastVars>>

NextBackends == BothDecrement

SpecBackends == InitBackends /\ [][NextBackends]_allVars

\* C27: after every call of a sequential sequence with a constant initial_count
\* N >= 1, the in-memory store and the Redis script have returned the same value,
\* and the same keys have a counter entry in both.
C27_BackendsAgree ==
    /\ IsSome(pair.last) => pair.last[1].mem = pair.last[1].redis
    /\ DOMAIN pair.mem = DOMAIN pair.redis

\* Four calls on one key with initial_count 2: the last one ended the second
\* round with 0 on both stores.
C27_Witness ==
    /\ pair.initial_count = 2 /\ pair.made = 4
    /\ pair.last[1].mem = 0 /\ pair.last[1].redis = 0
    /\ pair.mem = EmptyMap /\ pair.redis = EmptyMap

(***************************************************************************)
(* nodes/flow.rs: the Iteration node, executed by one token that goes      *)
(* round Start -> Iteration -(body)-> log -> Iteration -(exit)-> End.     *)
(***************************************************************************)
MaxItems == 2       \* longest collection array
MaxReentries == 2   \* times the enclosing cycle leads back to the Iteration node

\* str.replace(pat, ""): every occurrence of pat removed, left to right.
RECURSIVE RemoveAll(_, _)
RemoveAll(str, pat) ==
    IF Len(str) < Len(pat) THEN str
    ELSE IF SubSeq(str, 1, Len(pat)) = pat
         THEN RemoveAll(SubSeq(str, Len(pat) + 1, Len(str)), pat)
         ELSE SubSeq(str, 1, 1) \o RemoveAll(SubSeq(str, 2, Len(str)), pat)

\* IterationDefinition::prepare; None for the two errors.
IterationDefinition_prepare(params) ==
    LET collection == AsStr(JGet(params, "collection"))
        item_var == AsStr(JGet(params, "item_var"))
    IN IF ~IsSome(collection) \/ ~IsSome(item_var) THEN None
       ELSE Some([collection_var |-> RemoveAll(RemoveAll(collection[1], "${"), "}"),
                  item_var |-> item_var[1],
                  body_target |-> AsU64(JGet(params, "body")),
                  next_target |-> AsU64(JGet(params, "next"))])

\* format!("__iter_idx_{}", task.node_index)
iter_idx_key(node_index) == "__iter_idx_" \o IdNum(node_index)

\* The counter advanced by two instead of one.
IterationNode_execute_SkipsOne(node, variables, node_index) ==
    LET current_idx == LET o == AsU64(JGet(variables, iter_idx_key(node_index)))
                       IN IF IsSome(o) THEN o[1] ELSE 0
        collection == JGet(variables, node.collection_var)
        arr == AsArray(collection)
    IN IF IsSome(arr) /\ current_idx < Len(arr[1])
       THEN [variables |-> Put(Put(variables, node.item_var, arr[1][current_idx + 1]),
                               iter_idx_key(node_index), JNum(current_idx + 2)),
             read |-> collection, branch |-> "body", jump |-> node.body_target,
             wrote |-> Some(arr[1][current_idx + 1])]
       ELSE [variables |-> variables, read |-> collection, branch |-> "next",
             jump |-> node.next_target, wrote |-> None]

\* The counter set back to 0 when the collection is exhausted.
IterationNode_execute_Resets(node, variables, node_index) ==
    LET current_idx == LET o == AsU64(JGet(variables, iter_idx_key(node_index)))
                       IN IF IsSome(o) THEN o[1] ELSE 0
        collection == JGet(variables, node.collection_var)
        arr == AsArray(collection)
    IN IF IsSome(arr) /\ current_idx < Len(arr[1])
       THEN [variables |-> Put(Put(variables, node.item_var, arr[1][current_idx + 1]),
                               iter_idx_key(node_index), JNum(current_idx + 1)),
             read |-> collection, branch |-> "body", jump |-> node.body_target,
             wrote |-> Some(arr[1][current_idx + 1])]
       ELSE [variables |-> Put(variables, iter_idx_key(node_index), JNum(0)),
             read |-> collection, branch |-> "next",
             jump |-> node.next_target, wrote |-> None]

\* IterationNode::execute on the instance's variables: the variables afterwards,
\* the collection value it read, the branch it took, the jump it issued (None
\* when the target is not set) and the value it wrote to item_var.
IterationNode_execute(node, variables, node_index) ==
    LET current_idx == LET o == AsU64(JGet(variables, iter_idx_key(node_index)))
                       IN IF IsSome(o) THEN o[1] ELSE 0
        collection == JGet(variables, node.collection_var)
        arr == AsArray(collection)
    IN IF IsSome(arr) /\ current_idx < Len(arr[1])
       THEN [variables |-> Put(Put(variables, node.item_var, arr[1][current_idx + 1]),
                               iter_idx_key(node_index), JNum(current_idx + 1)),
             read |-> collection, branch |-> "body", jump |-> node.body_target,
             wrote |-> Some(arr[1][current_idx + 1])]
       ELSE [variables |-> variables, read |-> collection, branch |-> "next",
             jump |-> node.next_target, wrote |-> None]

\* Start -> Iteration, the body edge to a log node that leads back, present or
\* not, and the exit edge: absent ("none"), to End ("end"), or to a node of an
\* enclosing cycle that leads back to the Iteration node ("again").
IterationWf(collection, item_var, has_body, exit) ==
    Workflow("i_wf",
             <<NStart("i_start"), NIteration("i_it", collection, item_var),
               NFunction("i_body", "log", EmptyMap, None), NEnd("i_end", ""),
               NFunction("i_again", "assign", EmptyMap, None)>>,
             <<Edge("i_start", "i_it"), Edge("i_body", "i_it"), Edge("i_again", "i_it")>>
                \o (IF has_body THEN <<TaggedEdge("i_it", "i_body", "body")>> ELSE <<>>)
                \o (IF exit = "end" THEN <<TaggedEdge("i_it", "i_end", "none")>> ELSE <<>>)
                \o (IF exit = "again" THEN <<TaggedEdge("i_it", "i_again", "none")>>
                                      ELSE <<>>))

ItemValues == {JNum(10), JNum(20), JNum(30)}

\* The value of the variable "items" when the instance starts: missing or not an
\* array,
ScalarCollections == <<None, Some(JNum(5)), Some(JStr("x"))>>

\* or an array of up to MaxItems elements.
ArrayCollections == UNION {[1..n -> ItemValues] : n \in 0..MaxItems}

\* The instance right after start_workflow: the token at the start node.
IterationInstance(value) ==
    \E collection \in {"items", "${items}"}, item_var \in {"item", "items", "__iter_idx_1"},
       has_body \in BOOLEAN, exit \in {"none", "end", "again"} :
       LET bp == compile(EmptyMap,
                         IterationWf(collection, item_var, has_body, exit)).result.v
       IN it = [nodes |-> bp.nodes,
                at |-> Some(bp.start_index),
                variables |-> IF IsSome(value) THEN [items |-> value[1]] ELSE EmptyMap,
                execs |-> <<>>]

InitIteration ==
    /\ backend = "mem"
    /\ \/ \E i \in 1..Len(ScalarCollections) : IterationInstance(ScalarCollections[i])
       \/ \E a \in ArrayCollections : IterationInstance(Some(JArr(a)))
    /\ StoreUnused /\ EngineUnused /\ CompileUnused /\ FusedUnused
    /\ PrepareUnused /\ OptimizeUnused /\ BackendsUnused /\ LastUnused

\* The blueprint node the token is at.
ItNode == it.nodes[it.at[1] + 1]

\* The token's task executed by a Start or a log node: jump(next) if set.
ItJumpNext(kind) ==
    /\ IsSome(it.at) /\ ItNode.kind = kind
    /\ it' = [it EXCEPT !.at = AsU64(JGet(ItNode.params, "next"))]
    /\ UNCHANGED <<backend, storeVars, engineVars, compVars, fusedVars, prepVars,
                   optVars, pairVars, lastVars>>

ItStart == ItJumpNext("start")

ItBody == ItJumpNext("log")

\* The executions of the Iteration node that took the exit.
Exits == {k \in 1..Len(it.execs) : it.execs[k].branch = "next"}

\* The node of the enclosing cycle: control re-enters the Iteration node.
ItAgain ==
    /\ it # EmptyMap
    /\ Cardinality(Exits) <= MaxReentries
    /\ ItJumpNext("assign")

\* The token's task executed by the Iteration node.
ItIteration ==
    /\ IsSome(it.at) /\ ItNode.kind = "iteration"
    /\ LET node == IterationDefinition_prepare(ItNode.params)[1]
           r == IterationNode_execute(node, it.variables, it.at[1])
       IN it' = [it EXCEPT !.variables = r.variables, !.at = r.jump,
                           !.execs = Append(@, [read |-> r.read, branch |-> r.branch,
                                                jump |-> r.jump, wrote |-> r.wrote])]
    /\ UNCHANGED <<backend, storeVars, engineVars, compVars, fusedVars, prepVars,
                   optVars, pairVars, lastVars>>

\* The token's task executed by End: terminate, no follow-up task.
ItEnd ==
    /\ IsSome(it.at) /\ ItNode.kind = "end"
    /\ it' = [it EXCEPT !.at = None]
    /\ UNCHANGED <<backend, storeVars, engineVars, compVars, fusedVars, prepVars,
                   optVars, pairVars, lastVars>>

NextIteration == ItStart \/ ItIteration \/ ItBody \/ ItAgain \/ ItEnd

SpecIteration == InitIteration /\ [][NextIteration]_allVars

\* The Iteration node of the blueprint, prepared.
TheIteration == IterationDefinition_prepare(it.nodes[2].params)[1]

\* C30: while the collection variable holds one array of length L, the k-th
\* execution of the Iteration node, k <= L, takes the body branch (jump(body)) and
\* writes the k-th element to item_var, and the execution after the L-th takes the
\* exit (jump(next)) and writes nothing; an execution that finds the collection
\* variable missing or not an array takes the exit and writes nothing.
C30_IterationVisitsEachElement ==
    \A k \in 1..Len(it.execs) :
       LET e == it.execs[k]
           arr == AsArray(e.read)
       IN /\ (IsSome(arr) /\ \A j \in 1..k : it.execs[j].read = e.read)
                => IF k <= Len(arr[1])
                   THEN /\ e.branch = "body" /\ e.jump = TheIteration.body_target
                        /\ e.wrote = Some(arr[1][k])
                   ELSE /\ e.branch = "next" /\ e.jump = TheIteration.next_target
                        /\ e.wrote = None
          /\ ~IsSome(arr)
                => /\ e.branch = "next" /\ e.jump = TheIteration.next_target
                   /\ e.wrote = None

\* The k-th execution of the Iteration node read the array `a`.
ReadArray(k, a) ==
    /\ IsSome(it.execs[k].read)
    /\ it.execs[k].read[1].t = "arr"
    /\ it.execs[k].read[1].v = a

\* The collection "${items}" = [10, 20] was iterated with item_var "item": two
\* executions jumped to the body at index 2, the third to End at index 3, and
\* the token has terminated with item = 20 and the hidden counter at 2.
C30_Witness ==
    /\ Len(it.execs) = 3
    /\ \A k \in 1..3 : ReadArray(k, <<JNum(10), JNum(20)>>)
    /\ it.execs[1].jump = Some(2) /\ it.execs[2].jump = Some(2)
    /\ it.execs[3].jump = Some(3)
    /\ it.nodes[2].params.collection = JStr("${items}")
    /\ it.nodes[2].params.item_var = JStr("item")
    /\ it.variables = [items |-> JArr(<<JNum(10), JNum(20)>>)]
                         @@ ("item" :> JNum(20)) @@ ("__iter_idx_1" :> JNum(2))
    /\ it.at = None

\* The hidden counter of the Iteration node (blueprint index 1) as execute reads
\* it: 0 when the variable is missing or not an unsigned number.
IterCounter(variables) ==
    LET o == AsU64(JGet(variables, iter_idx_key(1)))
    IN IF IsSome(o) THEN o[1] ELSE 0

\* The executions among the first k that jumped to the body.
BodyJumps(k) == {j \in 1..k : it.execs[j].branch = "body"}

\* C38: no step of the instance decreases the hidden counter __iter_idx_1; and
\* while every execution of the Iteration node has read the same array of length
\* L, the node has jumped to the body min(k, L) times after k executions, so L
\* times in total, and every execution after the L-th, re-entries through the
\* enclosing cycle included, issues jump(next) and writes nothing.
C38_CounterNeverReset ==
    /\ [][it # EmptyMap => IterCounter(it'.variables) >= IterCounter(it.variables)]_allVars
    /\ [](it # EmptyMap =>
            \A k \in 1..Len(it.execs) :
               LET e == it.execs[k]
                   arr == AsArray(e.read)
               IN (IsSome(arr) /\ \A j \in 1..k : it.execs[j].read = e.read)
                     => /\ Cardinality(BodyJumps(k))
                              = (IF k <= Len(arr[1]) THEN k ELSE Len(arr[1]))
                        /\ k > Len(arr[1])
                              => /\ e.branch = "next"
                                 /\ e.jump = TheIteration.next_target
                                 /\ e.wrote = None)

\* The collection [10, 20] was iterated twice, exhausted, and control came back
\* through the enclosing cycle MaxReentries times: each re-entry jumped to the
\* exit at once and the counter stayed at 2.
C38_Witness ==
    /\ it # EmptyMap
    /\ Len(it.execs) = 3 + MaxReentries
    /\ \A k \in 1..Len(it.execs) :
          /\ ReadArray(k, <<JNum(10), JNum(20)>>)
          /\ k > 2 => it.execs[k].jump = Some(4)
    /\ Cardinality(BodyJumps(Len(it.execs))) = 2
    /\ IterCounter(it.variables) = 2

(***************************************************************************)
(* nodes/flow.rs: the If node, executed by one token of the blueprint      *)
(* compiled from Start -> If -> {one log node per edge} -> End.            *)
(***************************************************************************)
MaxConds == 2       \* conditioned edges of the If node

\* The conditions an author writes on the edges.
Conditions == {"x > 10", "${x} > 10", "x < 3", "flag", "x", "true"}

\* The loop of IfDefinition::prepare over the "branches" array; None for
\* "Missing condition" and "Missing target".
RECURSIVE IfBranches(_, _)
IfBranches(arr, acc) ==
    IF arr = <<>> THEN Some(acc)
    ELSE LET b == Head(arr).v
             cond_str == AsStr(JGet(b, "condition"))
             target == AsU64(JGet(b, "target"))
         IN IF ~IsSome(cond_str) \/ ~IsSome(target) THEN None
            ELSE IfBranches(Tail(arr),
                            Append(acc, [raw_cond |-> RemoveAll(RemoveAll(cond_str[1], "${"), "}"),
                                         target |-> target[1]]))

\* IfDefinition::prepare.
IfDefinition_prepare(params) ==
    LET arr == AsArray(JGet(params, "branches"))
        branches == IF IsSome(arr) THEN IfBranches(arr[1], <<>>) ELSE Some(<<>>)
    IN IF ~IsSome(branches) THEN None
       ELSE Some([branches |-> branches[1], else_next |-> AsU64(JGet(params, "else_next"))])

\* The evaluation context IfNode::execute builds: strings, numbers and booleans
\* are copied, every other value is left out.
EvalContext(variables) ==
    [k \in {key \in DOMAIN variables : variables[key].t \in {"str", "num", "bool"}}
        |-> variables[k]]

\* An identifier of a condition read in the evaluation context; Err when the
\* context has no such variable.
EvalVar(eval_ctx, name) ==
    IF Has(eval_ctx, name) THEN Ok(eval_ctx[name]) ELSE Err("VariableIdentifierNotFound")

\* `var OP literal` on integers; a non-number operand is an error.
EvalCompare(eval_ctx, name, op, lit) ==
    LET v == EvalVar(eval_ctx, name)
    IN IF ~v.ok THEN v
       ELSE IF v.v.t # "num" THEN Err("ExpectedNumber")
       ELSE Ok(IF op = ">" THEN v.v.v > lit ELSE v.v.v < lit)

\* condition.eval_boolean_with_context(&eval_ctx) for the conditions above: the
\* value of the expression, an error unless it is a boolean.
eval_boolean_with_context(raw_cond, eval_ctx) ==
    CASE raw_cond = "true" -> Ok(TRUE)
      [] raw_cond = "x > 10" -> EvalCompare(eval_ctx, "x", ">", 10)
      [] raw_cond = "x < 3" -> EvalCompare(eval_ctx, "x", "<", 3)
      [] raw_cond \in {"x", "flag"} ->
            LET v == EvalVar(eval_ctx, raw_cond)
            IN IF ~v.ok THEN v
               ELSE IF v.v.t # "bool" THEN Err("ExpectedBoolean")
               ELSE Ok(v.v.v)
      [] OTHER -> Err("parse")

\* .unwrap_or_else(|e| { eprintln!(..); false })
CondResult(raw_cond, eval_ctx) ==
    LET r == eval_boolean_with_context(raw_cond, eval_ctx)
    IN IF r.ok THEN r.v ELSE FALSE

\* The branch loop without its `break`: every true branch jumps.
RECURSIVE IfLoop_NoBreak(_, _, _)
IfLoop_NoBreak(branches, eval_ctx, acc) ==
    IF branches = <<>> THEN acc
    ELSE IF CondResult(Head(branches).raw_cond, eval_ctx)
         THEN IfLoop_NoBreak(Tail(branches), eval_ctx, Append(acc, Head(branches).target))
         ELSE IfLoop_NoBreak(Tail(branches), eval_ctx, acc)

\* The branch loop of IfNode::execute: the targets jumped to.
RECURSIVE IfLoop(_, _, _)
IfLoop(branches, eval_ctx, acc) ==
    IF branches = <<>> THEN acc
    ELSE IF CondResult(Head(branches).raw_cond, eval_ctx)
         THEN Append(acc, Head(branches).target)
         ELSE IfLoop(Tail(branches), eval_ctx, acc)

\* IfNode::execute: the targets of the jumps it issues, in order.
IfNode_execute(node, variables) ==
    LET jumped == IfLoop(node.branches, EvalContext(variables), <<>>)
        matched == jumped # <<>>
    IN IF ~matched /\ IsSome(node.else_next) THEN <<node.else_next[1]>> ELSE jumped

\* Start -> If; one conditioned edge per element of conds, the i-th to the log
\* node g_t<i>, and the else edge to g_e if has_else; every log node -> End.
IfWf(conds, has_else) ==
    LET t(i) == "g_t" \o IdNum(i)
    IN Workflow("g_wf",
                <<NStart("g_start"), NIf("g_if", <<>>)>>
                   \o [i \in 1..Len(conds) |-> NFunction(t(i), "log", EmptyMap, None)]
                   \o <<NFunction("g_e", "log", EmptyMap, None), NEnd("g_end", "")>>,
                <<Edge("g_start", "g_if")>>
                   \o [i \in 1..Len(conds) |-> EdgeCond("g_if", t(i), conds[i])]
                   \o (IF has_else THEN <<EdgeTyped("g_if", "g_e", "else")>> ELSE <<>>)
                   \o [i \in 1..Len(conds) |-> Edge(t(i), "g_end")]
                   \o <<Edge("g_e", "g_end")>>)

\* The values of the variables x and flag when the If node runs; None: not set.
XValues == <<None, Some(JNum(20)), Some(JNum(2)), Some(JStr("a")), Some(JBool(TRUE)),
             Some(JArr(<<>>))>>

FlagValues == <<None, Some(JBool(TRUE)), Some(JBool(FALSE))>>

IfVariables(x, flag) ==
    (IF IsSome(x) THEN [x |-> x[1]] ELSE EmptyMap)
       @@ (IF IsSome(flag) THEN [flag |-> flag[1]] ELSE EmptyMap)

InitIf ==
    /\ backend = "mem"
    /\ \E conds \in UNION {[1..n -> Conditions] : n \in 0..MaxConds}, has_else \in BOOLEAN,
          i \in 1..Len(XValues), j \in 1..Len(FlagValues) :
          LET bp == compile(EmptyMap, IfWf(conds, has_else)).result.v
          IN ifn = [nodes |-> bp.nodes,
                    at |-> <<bp.start_index>>,
                    variables |-> IfVariables(XValues[i], FlagValues[j]),
                    jumps |-> None]
    /\ StoreUnused /\ EngineUnused /\ CompileUnused /\ FusedUnused
    /\ PrepareUnused /\ OptimizeUnused /\ IterationUnused /\ BackendsUnused
    /\ RestUnused

\* The blueprint node the first live token is at.
IfTokenNode == ifn.nodes[Head(ifn.at) + 1]

\* The token's task executed by the Start node or a log node: jump(next) if set.
IfJumpNext(kind) ==
    /\ ifn.at # <<>> /\ IfTokenNode.kind = kind
    /\ LET next == AsU64(JGet(IfTokenNode.params, "next"))
       IN ifn' = [ifn EXCEPT !.at = Tail(@) \o next]
    /\ UNCHANGED <<backend, storeVars, engineVars, compVars, fusedVars, prepVars,
                   optVars, iterVars, pairVars, restVars>>

IfStart == IfJumpNext("start")

IfTarget == IfJumpNext("log")

\* The token's task executed by the If node: one follow-up task per jump.
IfExecute ==
    /\ ifn.at # <<>> /\ IfTokenNode.kind = "if"
    /\ LET node == IfDefinition_prepare(IfTokenNode.params)[1]
           jumps == IfNode_execute(node, ifn.variables)
       IN ifn' = [ifn EXCEPT !.at = Tail(@) \o jumps, !.jumps = Some(jumps)]
    /\ UNCHANGED <<backend, storeVars, engineVars, compVars, fusedVars, prepVars,
                   optVars, iterVars, pairVars, restVars>>

\* The token's task executed by End: terminate, no follow-up task.
IfEnd ==
    /\ ifn.at # <<>> /\ IfTokenNode.kind = "end"
    /\ ifn' = [ifn EXCEPT !.at = Tail(@)]
    /\ UNCHANGED <<backend, storeVars, engineVars, compVars, fusedVars, prepVars,
                   optVars, iterVars, pairVars, restVars>>

NextIf == IfStart \/ IfExecute \/ IfTarget \/ IfEnd

SpecIf == InitIf /\ [][NextIf]_allVars

\* The If node of the blueprint, prepared.
TheIf == IfDefinition_prepare(ifn.nodes[2].params)[1]

\* Whether the i-th branch's condition evaluates to true on the instance's
\* variables; an evaluation that fails is not true.
BranchTrue(i) ==
    LET r == eval_boolean_with_context(TheIf.branches[i].raw_cond, EvalContext(ifn.variables))
    IN r.ok /\ r.v

\* C31: an execution of the If node issues at most one jump: to the target of the
\* first branch whose condition is true (a failed evaluation is not true), or, if
\* no branch is true, to else_next when it is set, and nothing otherwise.
C31_IfJumpsToFirstTrueBranch ==
    IsSome(ifn.jumps) =>
       LET jumps == ifn.jumps[1]
           true_branches == {i \in 1..Len(TheIf.branches) : BranchTrue(i)}
       IN /\ Len(jumps) <= 1
          /\ \A i \in true_branches :
                (\A j \in true_branches : i <= j) => jumps = <<TheIf.branches[i].target>>
          /\ true_branches = {} =>
                jumps = IF IsSome(TheIf.else_next) THEN <<TheIf.else_next[1]>> ELSE <<>>

\* With x = "a" the first condition "x > 10" failed to evaluate, the second and
\* only true one, "flag", was taken although an else edge exists.
C31_Witness ==
    /\ IsSome(ifn.jumps) /\ Len(ifn.jumps[1]) = 1 /\ ifn.jumps[1][1] = 3
    /\ Len(TheIf.branches) = 2
    /\ TheIf.branches[1].raw_cond = "x > 10" /\ TheIf.branches[2].raw_cond = "flag"
    /\ TheIf.branches[2].target = 3
    /\ IsSome(TheIf.else_next)
    /\ Has(ifn.variables, "x") /\ ifn.variables["x"].t = "str"
    /\ Has(ifn.variables, "flag") /\ ifn.variables["flag"].v = TRUE
    /\ ~eval_boolean_with_context("x > 10", EvalContext(ifn.variables)).ok

(***************************************************************************)
(* The optimizer's output given to an engine that has every definition     *)
(* registered: Engine::new registers "fused", the embedding program the    *)
(* nodes and the function handlers.                                        *)
(***************************************************************************)
full_registry == node_registry \cup {"fused", "if", "fib", "http"}

\* definition.prepare(node.params) of the definition registered for the kind.
full_prepare(bp_node) ==
    CASE bp_node.kind = "fused" -> FusedNodeDefinition_prepare(bp_node.params)
      [] bp_node.kind \in {"fib", "http"} ->
            ActionNodeDefinition_prepare(bp_node.kind, bp_node.params)
      [] bp_node.kind = "if" ->
            LET r == IfDefinition_prepare(bp_node.params)
            IN IF IsSome(r) THEN Ok(r[1]) ELSE Err("Missing condition or target")
      [] OTHER -> prepare(bp_node)

\* prepare_blueprint succeeds on the node list.
Preparable(nodes) ==
    \A i \in 1..Len(nodes) : nodes[i].kind \in full_registry /\ full_prepare(nodes[i]).ok

\* C35: when every node of the input blueprint has a registered kind and can be
\* prepared, every node of the optimized blueprint can be prepared.
C35_OptimizedStaysPreparable ==
    (opt.phase = "done" /\ Preparable(opt.blueprint.nodes))
        => Preparable(opt.result[1].nodes)


(***************************************************************************)
(* SpecLossy: one token on Start -> fused node -> End, run by one worker    *)
(* over a Redis state store whose connection may be refused; the queue is   *)
(* reliable.                                                                *)
(***************************************************************************)
MaxLossyOps == 2    \* operations of the fused node

\* RedisStateStore::set_var: `up` is whether get_multiplexed_async_connection
\* succeeds; when it does not, `?` returns the error before HSET is sent.
RedisStateStore_set_var(variables, key, value, up) ==
    IF up THEN [ok |-> TRUE, variables |-> Put(variables, key, value)]
          ELSE [ok |-> FALSE, variables |-> variables]

\* Context::set_var: the store's error is printed and dropped, the caller gets ().
Context_set_var(variables, key, value, up) ==
    RedisStateStore_set_var(variables, key, value, up).variables

\* FunctionOp::execute_op with the assign handler's `value`: the result is
\* written to `output` when there is one.  `lost` collects the keys whose write
\* the store refused.
LossyOp(op, acc, up) ==
    IF IsSome(op.output)
    THEN [variables |-> Context_set_var(acc.variables, op.output[1], op.value, up),
          attempted |-> acc.attempted \cup {op.output[1]},
          lost |-> IF up THEN acc.lost \ {op.output[1]} ELSE acc.lost \cup {op.output[1]}]
    ELSE acc

\* The loop over `ops` of FusedNode::execute; ups[i] is the store's state when
\* op i writes.
RECURSIVE LossyOps(_, _, _)
LossyOps(ops, ups, acc) ==
    IF ops = <<>> THEN acc
    ELSE LossyOps(Tail(ops), Tail(ups), LossyOp(Head(ops), acc, Head(ups)))

NoWrites(variables) == [variables |-> variables, attempted |-> {}, lost |-> {}]

\* FusedNode::execute: every op in turn, then jump(next_index).
LossyFusedNode_execute(node, variables, ups) ==
    [after |-> LossyOps(node.ops, ups, NoWrites(variables)),
     pending |-> IF IsSome(node.next_index) THEN <<node.next_index[1]>> ELSE <<>>]

\* EndNode::execute: copies output_var to _WORKFLOW_OUTPUT when the variable is
\* there, then terminate().
LossyEndNode_execute(node, variables, up) ==
    [after |-> IF node.output_var # "" /\ Has(variables, node.output_var)
               THEN LossyOp([output |-> Some("_WORKFLOW_OUTPUT"),
                             value |-> variables[node.output_var]],
                            NoWrites(variables), up)
               ELSE NoWrites(variables),
     pending |-> <<>>]

\* The arm Ok(Ok(())) of run_worker: every buffered task is pushed.
LossyFlush(q, pending, lost) == q \o pending

LossyOpChoices ==
    {[output |-> o, value |-> JNum(n)] : o \in {None, Some("a"), Some("b")}, n \in 1..2}

LossyNodes(ops, output_var) ==
    <<[kind |-> "start", next |-> 1],
      [kind |-> "fused", ops |-> ops, next_index |-> Some(2)],
      [kind |-> "end", output_var |-> output_var]>>

\* The state start_workflow leaves: the task of the Start node is queued.
InitLossy ==
    /\ backend = "redis"
    /\ \E ops \in UNION {[1..n -> LossyOpChoices] : n \in 1..MaxLossyOps},
          output_var \in {"", "a"} :
          fw = [nodes |-> LossyNodes(ops, output_var),
                variables |-> EmptyMap,
                queue |-> <<0>>,
                pc |-> "pop",
                task |-> None,
                pending |-> <<>>,
                attempted |-> {},
                lost |-> {},
                moved |-> <<>>]
    /\ StoreUnused /\ EngineUnused /\ CompileUnused /\ FusedUnused
    /\ PrepareUnused /\ OptimizeUnused /\ IterationUnused /\ BackendsUnused
    /\ IfUnused /\ FrameUnused

LossyKeep ==
    UNCHANGED <<backend, storeVars, engineVars, compVars, fusedVars, prepVars,
                optVars, iterVars, pairVars, ifn, fr>>

\* run_worker: pop.
LossyPop ==
    /\ fw # EmptyMap
    /\ fw.pc = "pop"
    /\ fw.queue # <<>>
    /\ fw' = [fw EXCEPT !.pc = "execute", !.task = Some(Head(fw.queue)),
                        !.queue = Tail(fw.queue)]
    /\ LossyKeep

LossyReturn(r) ==
    fw' = [fw EXCEPT !.pc = "ret", !.variables = r.after.variables,
                     !.pending = r.pending, !.attempted = r.after.attempted,
                     !.lost = r.after.lost]

LossyAt(kind) ==
    /\ fw # EmptyMap
    /\ fw.pc = "execute"
    /\ fw.nodes[fw.task[1] + 1].kind = kind

\* StartNode::execute: jump(next).
LossyStart ==
    /\ LossyAt("start")
    /\ LossyReturn([after |-> NoWrites(fw.variables),
                    pending |-> <<fw.nodes[fw.task[1] + 1].next>>])
    /\ LossyKeep

LossyFused ==
    /\ LossyAt("fused")
    /\ \E ups \in [1..Len(fw.nodes[fw.task[1] + 1].ops) -> BOOLEAN] :
          LossyReturn(LossyFusedNode_execute(fw.nodes[fw.task[1] + 1], fw.variables, ups))
    /\ LossyKeep

LossyEnd ==
    /\ LossyAt("end")
    /\ \E up \in BOOLEAN :
          LossyReturn(LossyEndNode_execute(fw.nodes[fw.task[1] + 1], fw.variables, up))
    /\ LossyKeep

\* run_worker after execute returned Ok(()): flush, then back to pop.  `moved`
\* keeps, for every node the token moved past, the writes the store refused.
LossyFlushStep ==
    /\ fw # EmptyMap
    /\ fw.pc = "ret"
    /\ LET q == LossyFlush(fw.queue, fw.pending, fw.lost)
       IN fw' = [fw EXCEPT !.pc = "pop", !.task = None, !.pending = <<>>,
                           !.queue = q,
                           !.moved = IF Len(q) > Len(fw.queue)
                                     THEN Append(@, [node |-> fw.task[1], lost |-> fw.lost])
                                     ELSE @]
    /\ LossyKeep

NextLossy == LossyPop \/ LossyStart \/ LossyFused \/ LossyEnd \/ LossyFlushStep

SpecLossy == InitLossy /\ [][NextLossy]_allVars

\* C37: a follow-up task of a node is enqueued only when every write the node
\* attempted through set_var took effect: no node the token moved past had a
\* write refused by the store.
C37_NoMoveAfterLostWrite ==
    fw # EmptyMap => \A i \in 1..Len(fw.moved) : fw.moved[i].lost = {}


(***************************************************************************)
(* SpecFrame: set_var, init_instance and decrement_join_count, one call     *)
(* after the other, on two instances of one state store.  The in-memory     *)
(* store is two maps keyed by instance; the Redis store is one keyspace     *)
(* shared by all instances, addressed through var_key and join_key.         *)
(***************************************************************************)
\* Two instance ids as Uuid's Display prints them (fixed length).
FrameInstances == {"0a", "0b"}

FrameKeys == {"a", "b"}

FrameValues == {JNum(1), JNum(2)}

FrameInitialVars == {EmptyMap, [a |-> JNum(1)], [b |-> JNum(2)]}

\* The Join node the counters belong to.
FrameNodeIndex == 2

\* The instance id shared by every key.
var_key_Shared(instance_id) == "skript:inst:" \o ":vars"

var_key(instance_id) == "skript:inst:" \o instance_id \o ":vars"

join_key(instance_id) == "skript:inst:" \o instance_id \o ":joins"

\* The hash stored at a Redis key; a missing key reads as the empty hash, and a
\* hash that becomes empty removes its key.
HashAt(ks, key) == IF Has(ks, key) THEN ks[key] ELSE EmptyMap

StoreHash(ks, key, hash) == IF hash = EmptyMap THEN Del(ks, key) ELSE Put(ks, key, hash)

\* RedisStateStore::set_var: HSET var_key field value.
RedisSetVar(ks, instance_id, key, value) ==
    StoreHash(ks, var_key(instance_id), Put(HashAt(ks, var_key(instance_id)), key, value))

\* RedisStateStore::init_instance: hset_multiple when initial_vars is not empty.
RECURSIVE RedisInitInstance(_, _, _)
RedisInitInstance(ks, instance_id, initial_vars) ==
    IF initial_vars = EmptyMap THEN ks
    ELSE LET k == CHOOSE x \in DOMAIN initial_vars : TRUE
         IN RedisInitInstance(RedisSetVar(ks, instance_id, k, initial_vars[k]),
                              instance_id, Del(initial_vars, k))

\* RedisStateStore::decrement_join_count: the script on the hash at join_key.
RedisDecrement(ks, instance_id, node_index, init) ==
    LET r == RedisScript(HashAt(ks, join_key(instance_id)), IdNum(node_index), init)
    IN StoreHash(ks, join_key(instance_id), r[1])

\* The store after construction: no instance, no counter, an empty keyspace.
NewStore == [vars |-> EmptyMap, joins |-> EmptyMap, keyspace |-> EmptyMap]

\* The three operations on the store in use.
FrameSetVar(st, instance_id, key, value) ==
    IF backend = "mem"
    THEN [st EXCEPT !.vars = set_var(@, instance_id, key, value)]
    ELSE [st EXCEPT !.keyspace = RedisSetVar(@, instance_id, key, value)]

FrameInitInstance(st, instance_id, initial_vars) ==
    IF backend = "mem"
    THEN [st EXCEPT !.vars = init_instance(@, instance_id, initial_vars)]
    ELSE [st EXCEPT !.keyspace = RedisInitInstance(@, instance_id, initial_vars)]

FrameDecrement(st, instance_id, node_index, init) ==
    IF backend = "mem"
    THEN [st EXCEPT !.joins = MemDecrement(@, <<instance_id, node_index>>, init)[1]]
    ELSE [st EXCEPT !.keyspace = RedisDecrement(@, instance_id, node_index, init)]

\* get_all_vars(instance_id), and the instance's join counter (None when there
\* is none).
VarsOf(st, instance_id) ==
    IF backend = "mem"
    THEN (IF Has(st.vars, instance_id) THEN st.vars[instance_id] ELSE EmptyMap)
    ELSE HashAt(st.keyspace, var_key(instance_id))

JoinOf(st, instance_id) ==
    IF backend = "mem"
    THEN JGet(st.joins, <<instance_id, FrameNodeIndex>>)
    ELSE JGet(HashAt(st.keyspace, join_key(instance_id)), IdNum(FrameNodeIndex))

InitFrame ==
    /\ backend \in Backends
    /\ fr = [store |-> NewStore, last |-> None]
    /\ StoreUnused /\ EngineUnused /\ CompileUnused /\ FusedUnused
    /\ PrepareUnused /\ OptimizeUnused /\ IterationUnused /\ BackendsUnused
    /\ IfUnused /\ LossyUnused

FrameKeep ==
    UNCHANGED <<backend, storeVars, engineVars, compVars, fusedVars, prepVars,
                optVars, iterVars, pairVars, ifn, fw>>

FrameCall(store, op, instance_id, key) ==
    fr' = [store |-> store,
           last |-> Some([op |-> op, instance_id |-> instance_id, key |-> key])]

CallSetVar ==
    /\ fr # EmptyMap
    /\ \E i \in FrameInstances, k \in FrameKeys, value \in FrameValues :
          FrameCall(FrameSetVar(fr.store, i, k, value), "set_var", i, k)
    /\ FrameKeep

CallInitInstance ==
    /\ fr # EmptyMap
    /\ \E i \in FrameInstances, initial_vars \in FrameInitialVars :
          FrameCall(FrameInitInstance(fr.store, i, initial_vars), "init_instance", i, "")
    /\ FrameKeep

CallDecrement ==
    /\ fr # EmptyMap
    /\ \E i \in FrameInstances, init \in 1..MaxCount :
          FrameCall(FrameDecrement(fr.store, i, FrameNodeIndex, init),
                    "decrement_join_count", i, "")
    /\ FrameKeep

NextFrame == CallSetVar \/ CallInitInstance \/ CallDecrement

SpecFrame == InitFrame /\ [][NextFrame]_allVars

\* C40: a call of set_var, init_instance or decrement_join_count on one instance
\* leaves the variables and the join counter of every other instance as they
\* were, and set_var on a key leaves every other key of the instance as it was.
C40_OtherInstancesUntouched ==
    [][(fr # EmptyMap /\ fr' # fr) =>
          LET call == fr'.last[1]
          IN /\ \A j \in FrameInstances \ {call.instance_id} :
                   /\ VarsOf(fr'.store, j) = VarsOf(fr.store, j)
                   /\ JoinOf(fr'.store, j) = JoinOf(fr.store, j)
             /\ call.op = "set_var"
                   => \A k \in FrameKeys \ {call.key} :
                         JGet(VarsOf(fr'.store, call.instance_id), k)
                            = JGet(VarsOf(fr.store, call.instance_id), k)]_allVars

\* Both instances hold both variables and a join counter, and the last call
\* changed a variable of one of them.
C40_Witness ==
    /\ fr # EmptyMap
    /\ \A i \in FrameInstances :
          /\ DOMAIN VarsOf(fr.store, i) = FrameKeys
          /\ IsSome(JoinOf(fr.store, i))
    /\ IsSome(fr.last) /\ fr.last[1].op = "set_var"
    /\ \E i, j \in FrameInstances : VarsOf(fr.store, i) # VarsOf(fr.store, j)

====
